---- MODULE Spec2Model ----
(***************************************************************************)
(* Options performance evaluation engine: the chain filter, the put        *)
(* evaluator, the call credit spread optimizer, the cherry filter and the  *)
(* date/expiry resolver of utils.ts, in its three successive versions.     *)
(*                                                                         *)
(* JavaScript strings are sequences of one-character strings.  JavaScript  *)
(* numbers are records: a finite number is an exact fraction, next to NaN   *)
(* and the two infinities; only Math.pow is rounded.                       *)
(***************************************************************************)
EXTENDS Integers, Sequences, FiniteSets, TLC

----------------------------------------------------------------------------
(* JavaScript numbers: exact fractions in lowest terms, NaN, +-Infinity *)

RECURSIVE Gcd(_, _)
Gcd(a, b) == IF b = 0 THEN a ELSE Gcd(b, a % b)

Sign(i) == IF i > 0 THEN 1 ELSE IF i < 0 THEN -1 ELSE 0
AbsInt(i) == IF i < 0 THEN -i ELSE i

NaN == [k |-> "nan", n |-> 0, d |-> 1]
PosInf == [k |-> "inf", n |-> 1, d |-> 1]
NegInf == [k |-> "inf", n |-> -1, d |-> 1]
\* The number n / d, for d # 0.
Rat(n, d) ==
    LET g == Gcd(AbsInt(n), AbsInt(d))
    IN  [k |-> "num", n |-> Sign(d) * (n \div g), d |-> AbsInt(d) \div g]
Num(i) == [k |-> "num", n |-> i, d |-> 1]
Zero == Num(0)

IsNaN(a) == a.k = "nan"
IsFinite(a) == a.k = "num"
IsInf(a) == a.k = "inf"
IsInteger(a) == IsFinite(a) /\ a.d = 1

Tier(a) == IF IsInf(a) THEN a.n ELSE 0

\* a < b, a <= b, a > b, a >= b: false as soon as one side is NaN.
Lt(a, b) ==
    /\ ~IsNaN(a)
    /\ ~IsNaN(b)
    /\ \/ Tier(a) < Tier(b)
       \/ /\ IsFinite(a)
          /\ IsFinite(b)
          /\ LET g == Gcd(a.d, b.d)
             IN  a.n * (b.d \div g) < b.n * (a.d \div g)
Le(a, b) == ~IsNaN(a) /\ ~IsNaN(b) /\ ~Lt(b, a)
Gt(a, b) == Lt(b, a)
Ge(a, b) == Le(b, a)

\* !x for a number: 0 and NaN are falsy.
Falsy(a) == IsNaN(a) \/ (IsFinite(a) /\ a.n = 0)

Neg(a) == IF IsNaN(a) THEN NaN ELSE [k |-> a.k, n |-> -a.n, d |-> a.d]

Add(a, b) ==
    IF IsNaN(a) \/ IsNaN(b) THEN NaN
    ELSE IF IsInf(a) /\ IsInf(b) THEN (IF a.n = b.n THEN a ELSE NaN)
    ELSE IF IsInf(a) THEN a
    ELSE IF IsInf(b) THEN b
    ELSE LET g == Gcd(a.d, b.d)
         IN  Rat(a.n * (b.d \div g) + b.n * (a.d \div g), (a.d \div g) * b.d)

Sub(a, b) == Add(a, Neg(b))

Mul(a, b) ==
    IF IsNaN(a) \/ IsNaN(b) THEN NaN
    ELSE IF IsInf(a) \/ IsInf(b)
         THEN (IF a.n = 0 \/ b.n = 0 THEN NaN
               ELSE [k |-> "inf", n |-> Sign(a.n) * Sign(b.n), d |-> 1])
    ELSE LET g1 == Gcd(AbsInt(a.n), b.d)
             g2 == Gcd(AbsInt(b.n), a.d)
         IN  Rat((a.n \div g1) * (b.n \div g2), (a.d \div g2) * (b.d \div g1))

Div(a, b) ==
    IF IsNaN(a) \/ IsNaN(b) THEN NaN
    ELSE IF IsInf(a) THEN (IF IsInf(b) THEN NaN
                           ELSE [k |-> "inf", n |-> a.n * (IF b.n < 0 THEN -1 ELSE 1),
                                 d |-> 1])
    ELSE IF IsInf(b) THEN Zero
    ELSE IF b.n = 0 THEN (IF a.n = 0 THEN NaN
                          ELSE [k |-> "inf", n |-> Sign(a.n), d |-> 1])
    ELSE Mul(a, Rat(b.d, b.n))

\* Math.abs
Abs(a) == IF IsNaN(a) THEN NaN ELSE [k |-> a.k, n |-> AbsInt(a.n), d |-> a.d]

\* Math.ceil
Ceil(a) ==
    IF ~IsFinite(a) THEN a
    ELSE Num(IF a.n % a.d = 0 THEN a.n \div a.d ELSE (a.n \div a.d) + 1)

\* Math.max(a, b): NaN as soon as one argument is NaN.
Max(a, b) == IF IsNaN(a) \/ IsNaN(b) THEN NaN ELSE IF Lt(a, b) THEN b ELSE a

----------------------------------------------------------------------------
(* Math.pow, computed as exp(y * ln(x)) on logarithms held times Fine; its *)
(* result is rounded down to a multiple of 1 / Fine (of 1 / Coarse once it *)
(* passes 2 ^ CoarseFrom).                                                 *)

Coarse == 1000
Fine == 1000000
Ln2 == 693147
CoarseFrom == 10
Pow2(n) == 2 ^ n

\* a * b / Fine for a, b held times Fine, without leaving 32 bits.
MulFine(a, b) ==
    LET a1 == a \div Coarse
        a0 == a % Coarse
        b1 == b \div Coarse
        b0 == b % Coarse
    IN  a1 * b1 + (a1 * b0 + a0 * b1) \div Coarse + (a0 * b0) \div Fine

\* q * 10^k + (r * 10^k) \div dd, a decimal digit at a time
RECURSIVE LongDiv(_, _, _, _)
LongDiv(q, r, dd, k) ==
    IF k = 0 THEN q
    ELSE LongDiv(q * 10 + (r * 10) \div dd, (r * 10) % dd, dd, k - 1)

\* n * Fine / dd, rounded down
ToFine(n, dd) == LongDiv(n \div dd, n % dd, dd, 6)

\* The number of halvings that bring n / d >= 1 into [1, 2).
RECURSIVE Halvings(_, _)
Halvings(n, d) == IF n < 2 * d THEN 0 ELSE 1 + Halvings(n, 2 * d)

\* sum of z^n / n over the odd n from `n` to 11; zn is z^n.
RECURSIVE AtanhSeries(_, _, _)
AtanhSeries(z, zn, n) ==
    IF n > 11 THEN 0
    ELSE zn \div n + AtanhSeries(z, MulFine(MulFine(zn, z), z), n + 2)

\* ln(n / d) * Fine for n / d >= 1.
Ln(n, d) ==
    LET h == Halvings(n, d)
        m == ToFine(n, d * Pow2(h))
        z == ToFine(m - Fine, m + Fine)
    IN  h * Ln2 + 2 * AtanhSeries(z, z, 1)

\* sum of r^n / n! from the term `term` = r^n / n! on, to n = 12.
RECURSIVE ExpSeries(_, _, _)
ExpSeries(r, term, n) ==
    IF n > 12 THEN 0
    ELSE term + ExpSeries(r, MulFine(term, r) \div (n + 1), n + 1)

\* The largest y * ln(x) (times Fine) whose power is still held as finite:
\* beyond it the result overflows to Infinity.
PowOverflow == 9900000

\* exp(u / Fine) for 0 <= u <= PowOverflow.
Exp(u) ==
    LET k == u \div Ln2
        e == ExpSeries(u % Ln2, Fine, 0)
    IN  IF k <= CoarseFrom THEN Rat(e * Pow2(k), Fine)
        ELSE Rat((e \div Coarse) * Pow2(k), Coarse)

\* Math.pow(x, y)
RECURSIVE Pow(_, _)
Pow(x, y) ==
    IF IsFinite(y) /\ y.n = 0 THEN Num(1)
    ELSE IF IsNaN(x) \/ IsNaN(y) THEN NaN
    ELSE IF IsInf(y) THEN
        (IF IsFinite(x) /\ AbsInt(x.n) = x.d THEN NaN
         ELSE IF (IsInf(x) \/ AbsInt(x.n) > x.d) = (y.n > 0) THEN PosInf ELSE Zero)
    ELSE IF IsInf(x) THEN
        (IF x.n < 0 THEN NaN ELSE IF y.n > 0 THEN PosInf ELSE Zero)
    ELSE IF x.n < 0 THEN NaN
    ELSE IF x.n = 0 THEN (IF y.n > 0 THEN Zero ELSE PosInf)
    ELSE IF y.n < 0 THEN Div(Num(1), Pow(x, Neg(y)))
    ELSE IF x.n < x.d THEN Div(Num(1), Pow(Div(Num(1), x), y))
    ELSE LET ln == Ln(x.n, x.d)
             u == (ln \div y.d) * y.n + ((ln % y.d) * y.n) \div y.d
         IN  IF u > PowOverflow THEN PosInf ELSE Exp(u)

----------------------------------------------------------------------------
(* JavaScript strings: sequences of one-character strings *)

\* The value undefined, where a string is expected.
Undefined == <<"undefined value">>
IsUndefined(s) == s = Undefined
\* String(undefined), as a template literal renders it.
StrUndefined == <<"u", "n", "d", "e", "f", "i", "n", "e", "d">>
StrPlaceholder == <<"-", "-">>
Interpolate(s) == IF IsUndefined(s) THEN StrUndefined ELSE s

DigitChars == <<"0", "1", "2", "3", "4", "5", "6", "7", "8", "9">>
IsDigit(c) == \E i \in 1..10 : DigitChars[i] = c
DigitVal(c) == (CHOOSE i \in 1..10 : DigitChars[i] = c) - 1

\* !s for a string or undefined
Empty(s) == IsUndefined(s) \/ s = <<>>

\* s.startsWith(prefix)
StartsWith(s, prefix) ==
    /\ Len(prefix) <= Len(s)
    /\ SubSeq(s, 1, Len(prefix)) = prefix

\* s.replace(/,/g, '')
RemoveCommas(s) == SelectSeq(s, LAMBDA c : c # ",")

\* s.split(sep) for a one-character separator: the pieces between separators.
RECURSIVE Split(_, _)
Split(s, sep) ==
    IF \A i \in 1..Len(s) : s[i] # sep THEN <<s>>
    ELSE LET i == CHOOSE j \in 1..Len(s) :
                      s[j] = sep /\ \A h \in 1..(j - 1) : s[h] # sep
         IN  <<SubSeq(s, 1, i - 1)>> \o Split(SubSeq(s, i + 1, Len(s)), sep)

\* const [a, b] = parts: a missing element is undefined.
Elem(parts, i) == IF i <= Len(parts) THEN parts[i] ELSE Undefined

\* The number of leading characters of s, from position i, that are digits.
RECURSIVE DigitRun(_, _)
DigitRun(s, i) == IF i <= Len(s) /\ IsDigit(s[i]) THEN 1 + DigitRun(s, i + 1) ELSE 0

\* The value of the digits s[i .. i + n - 1].
RECURSIVE DigitsValue(_, _, _)
DigitsValue(s, i, n) ==
    IF n = 0 THEN 0 ELSE DigitsValue(s, i, n - 1) * 10 + DigitVal(s[i + n - 1])

\* A decimal literal keeps at most this many fractional digits.
FractionDigits == 4

RECURSIVE SkipSpaces(_, _)
SkipSpaces(s, i) == IF i <= Len(s) /\ s[i] = " " THEN SkipSpaces(s, i + 1) ELSE i

\* parseFloat(s): the longest leading decimal literal of s, NaN when there is none.
ParseFloat(s) ==
    LET str == Interpolate(s)
        b == SkipSpaces(str, 1)
        neg == b <= Len(str) /\ str[b] = "-"
        i == IF b <= Len(str) /\ str[b] \in {"-", "+"} THEN b + 1 ELSE b
        n == DigitRun(str, i)
        dot == i + n <= Len(str) /\ str[i + n] = "."
        d == IF dot THEN DigitRun(str, i + n + 1) ELSE 0
        f == IF d < FractionDigits THEN d ELSE FractionDigits
        mag == Add(Num(DigitsValue(str, i, n)),
                   Rat(DigitsValue(str, i + n + 1, f), 10 ^ f))
    IN  IF n = 0 /\ d = 0 THEN NaN ELSE IF neg THEN Neg(mag) ELSE mag

\* parseInt(s): the leading integer of s, NaN when there is none.
ParseInt(s) ==
    LET str == Interpolate(s)
        b == SkipSpaces(str, 1)
        neg == b <= Len(str) /\ str[b] = "-"
        i == IF b <= Len(str) /\ str[b] \in {"-", "+"} THEN b + 1 ELSE b
        n == DigitRun(str, i)
    IN  IF n = 0 THEN NaN
        ELSE Num(IF neg THEN -DigitsValue(str, i, n) ELSE DigitsValue(str, i, n))

safeParseFloat(value) ==
    IF Empty(value) \/ value = StrPlaceholder THEN Zero
    ELSE ParseFloat(RemoveCommas(value))

\* value || '0'
OrZeroStr(value) == IF Empty(value) THEN <<"0">> ELSE value

\* The decimal digits of a natural number, padded with zeros to `width`.
RECURSIVE Decimal(_, _)
Decimal(n, width) ==
    IF n < 10 /\ width <= 1 THEN <<DigitChars[n + 1]>>
    ELSE Decimal(n \div 10, width - 1) \o <<DigitChars[(n % 10) + 1]>>

monthNames == <<<<"J", "a", "n">>,
               <<"F", "e", "b">>,
               <<"M", "a", "r">>,
               <<"A", "p", "r">>,
               <<"M", "a", "y">>,
               <<"J", "u", "n">>,
               <<"J", "u", "l">>,
               <<"A", "u", "g">>,
               <<"S", "e", "p">>,
               <<"O", "c", "t">>,
               <<"N", "o", "v">>,
               <<"D", "e", "c">>>>
fullMonthNames == <<<<"J", "a", "n", "u", "a", "r", "y">>,
                   <<"F", "e", "b", "r", "u", "a", "r", "y">>,
                   <<"M", "a", "r", "c", "h">>,
                   <<"A", "p", "r", "i", "l">>,
                   <<"M", "a", "y">>,
                   <<"J", "u", "n", "e">>,
                   <<"J", "u", "l", "y">>,
                   <<"A", "u", "g", "u", "s", "t">>,
                   <<"S", "e", "p", "t", "e", "m", "b", "e", "r">>,
                   <<"O", "c", "t", "o", "b", "e", "r">>,
                   <<"N", "o", "v", "e", "m", "b", "e", "r">>,
                   <<"D", "e", "c", "e", "m", "b", "e", "r">>>>

\* monthNames.indexOf(name), from 0, -1 when absent
IndexOfMonth(name) ==
    IF \E i \in 1..12 : monthNames[i] = name
    THEN (CHOOSE i \in 1..12 : monthNames[i] = name) - 1
    ELSE -1

\* monthMap[shortMonth]: the full month name, undefined when there is no key
monthMap(shortMonth) ==
    IF IndexOfMonth(shortMonth) >= 0 THEN fullMonthNames[IndexOfMonth(shortMonth) + 1]
    ELSE Undefined

----------------------------------------------------------------------------
(* The clock and the calendar.  An instant is a whole number of hours since *)
(* 00:00 UTC on January 1 of EpochYear; the years modelled have 365 days.   *)

EpochYear == 2025
DAYS_IN_YEAR == 365
HoursInADay == 24
CumDays == <<0, 31, 59, 90, 120, 151, 181, 212, 243, 273, 304, 334>>

DayNumber(y, m, d) == (y - EpochYear) * DAYS_IN_YEAR + CumDays[m] + (d - 1)
YearOfDay(n) == EpochYear + (n \div DAYS_IN_YEAR)
MonthOfDay(n) ==
    LET doy == n % DAYS_IN_YEAR
    IN  CHOOSE m \in 1..12 : CumDays[m] <= doy /\ (m = 12 \/ doy < CumDays[m + 1])
DateOfDay(n) == (n % DAYS_IN_YEAR) - CumDays[MonthOfDay(n)] + 1

\* The time value of an invalid Date is NaN; a valid one is Num(hours).
InvalidTime == NaN
\* A Date object: its identity (=== compares identities) and its time value.
DateObj(ref, time) == [ref |-> ref, time |-> time]
IsValidDate(date) == IsFinite(date.time)

\* The day (counted from the epoch) the instant t falls on at UTC offset `offset`.
DayAt(t, offset) == (t + offset) \div HoursInADay

\* Local midnight of year-month-day, in a process whose zone is at UTC+tz.
\* A day of month past the month's end rolls over into the next month.
LocalMidnight(y, m, d, tz) ==
    IF IsNaN(y) \/ IsNaN(m) \/ IsNaN(d) THEN InvalidTime
    ELSE IF m.n < 1 \/ m.n > 12 \/ d.n < 1 \/ d.n > 31 THEN InvalidTime
    ELSE Num(DayNumber(y.n, m.n, d.n) * HoursInADay - tz)

\* Date.parse of an expiry-group label "MonthName D, YYYY ...": the month is
\* recognised by its first three letters, the words after the year are ignored.
ParseDateLabel(label, tz) ==
    IF IsUndefined(label) THEN InvalidTime
    ELSE LET words == Split(label, " ")
             w1 == Elem(words, 1)
             month == IF IsUndefined(w1) \/ Len(w1) < 3 THEN -1
                      ELSE IndexOfMonth(SubSeq(w1, 1, 3))
         IN  IF month < 0 \/ Len(words) < 3 THEN InvalidTime
             ELSE LocalMidnight(ParseInt(words[3]), Num(month + 1), ParseInt(words[2]), tz)

\* date.toISOString().split('T')[0] of a valid date: its UTC day as YYYY-MM-DD.
ISODate(time) ==
    LET n == DayAt(time.n, 0)
    IN  Decimal(YearOfDay(n), 4) \o <<"-">> \o Decimal(MonthOfDay(n), 2)
            \o <<"-">> \o Decimal(DateOfDay(n), 2)

\* America/New_York: UTC-5, and UTC-4 from the second Sunday of March, 07:00
\* UTC, to the first Sunday of November, 06:00 UTC.
DstStartDay == <<DayNumber(2025, 3, 9), DayNumber(2026, 3, 8), DayNumber(2027, 3, 14)>>
DstEndDay == <<DayNumber(2025, 11, 2), DayNumber(2026, 11, 1), DayNumber(2027, 11, 7)>>
NewYorkOffset(t) ==
    IF \E i \in 1..Len(DstStartDay) :
           /\ t >= DstStartDay[i] * HoursInADay + 7
           /\ t < DstEndDay[i] * HoursInADay + 6
    THEN -4 ELSE -5

\* toZonedTime(date, 'America/New_York').getTime(): the New York wall clock
\* of the instant, read as a time of the process's own zone.
toZonedTime(time, tz) ==
    IF IsNaN(time) THEN NaN ELSE Num(time.n + NewYorkOffset(time.n) - tz)

----------------------------------------------------------------------------
(* utils.ts, latest version: the date/expiry resolver and the pricing math *)

\* An option-chain row (OptionChainLink): every field a string or undefined.
ChainLink(strike, pBid, cBid, cAsk, expiryDate, expirygroup) ==
    [strike |-> strike, p_Bid |-> pBid, c_Bid |-> cBid, c_Ask |-> cAsk,
     expiryDate |-> expiryDate, expirygroup |-> expirygroup]

\* calculatePercentageChange as the size of the change, without its sign
calculatePercentageChangeUnsigned(targetPrice, currentPrice) ==
    Abs(Mul(Div(Sub(targetPrice, currentPrice), currentPrice), Num(100)))

calculatePercentageChange(targetPrice, currentPrice) ==
    Mul(Div(Sub(targetPrice, currentPrice), currentPrice), Num(100))

\* The year, month and day the process's zone (UTC+tz) shows at instant now.
getFullYear(now, tz) == YearOfDay(DayAt(now, tz))
getMonth(now, tz) == MonthOfDay(DayAt(now, tz)) - 1

\* convertStringToDate(stringDate), read at instant now: the time value of
\* the Date it returns.
convertStringToDate(stringDate, now, tz) ==
    LET currMonth == getMonth(now, tz) + 1
        currYear == getFullYear(now, tz)
        parts == Split(stringDate, " ")
        monthName == Elem(parts, 1)
        dayStr == Elem(parts, 2)
        day == ParseInt(dayStr)
        month == IndexOfMonth(monthName) + 1
        year == IF month >= currMonth THEN currYear ELSE currYear + 1
        local == LocalMidnight(Num(year), Num(month), day, tz)
    IN  \* date.setUTCHours(0, 0, 0, 0): midnight UTC of the date's UTC day
        IF IsNaN(local) THEN InvalidTime
        ELSE Num(DayAt(local.n, 0) * HoursInADay)

\* findExpiryGroupStartingWith with the last matching label in place of the first
findExpiryGroupLast(dateStr, expiryGroups) ==
    LET parts == Split(dateStr, " ")
        shortMonth == Elem(parts, 1)
        dayNum == Elem(parts, 2)
        longMonth == monthMap(shortMonth)
        formattedDateStr == longMonth \o <<" ">> \o Interpolate(dayNum)
    IN  IF IsUndefined(longMonth) THEN Undefined
        ELSE LET found == SelectSeq(expiryGroups,
                                    LAMBDA expiry : StartsWith(expiry, formattedDateStr))
             IN  IF found = <<>> THEN Undefined ELSE found[Len(found)]

\* findExpiryGroupStartingWith(dateStr, expiryGroups), for a dateStr that is a string
findExpiryGroupStartingWith(dateStr, expiryGroups) ==
    LET parts == Split(dateStr, " ")
        shortMonth == Elem(parts, 1)
        dayNum == Elem(parts, 2)
        longMonth == monthMap(shortMonth)
        formattedDateStr == longMonth \o <<" ">> \o Interpolate(dayNum)
    IN  IF IsUndefined(longMonth) THEN Undefined
        ELSE \* expiryGroups.find(expiry => expiry.startsWith(formattedDateStr))
             LET found == SelectSeq(expiryGroups,
                                    LAMBDA expiry : StartsWith(expiry, formattedDateStr))
             IN  IF found = <<>> THEN Undefined ELSE Head(found)

\* daysUntil with Math.max(0, days) in place of Math.max(1, days)
daysUntilFromZero(time, now, tz) ==
    Max(Zero, Ceil(Div(Sub(toZonedTime(time, tz), toZonedTime(Num(now), tz)),
                       Num(HoursInADay))))

\* daysUntil without Math.max(1, days)
daysUntilUnclamped(time, now, tz) ==
    Ceil(Div(Sub(toZonedTime(time, tz), toZonedTime(Num(now), tz)), Num(HoursInADay)))

\* daysUntil(date) at instant now; `time` is the date's time value
daysUntil(time, now, tz) ==
    LET nycDate == toZonedTime(time, tz)
        nycNow == toZonedTime(Num(now), tz)
        differenceInHours == Sub(nycDate, nycNow)
        days == Ceil(Div(differenceInHours, Num(HoursInADay)))
    IN  Max(Num(1), days)

\* (Math.pow(1 + roiDecimal, 365 / daysToCollateralRelease) - 1) * 100
AnnualizedROI(roiDecimal, daysToCollateralRelease) ==
    Mul(Sub(Pow(Add(Num(1), roiDecimal),
                Div(Num(DAYS_IN_YEAR), daysToCollateralRelease)),
            Num(1)),
        Num(100))

\* An APY that takes non-positive days for one day instead of failing
calculateAPYClamped(strikePrice, optionPremium, daysToExpiration) ==
    [threw |-> FALSE,
     value |-> Mul(Mul(Div(Div(optionPremium, strikePrice),
                           Max(Num(1), daysToExpiration)),
                       Num(DAYS_IN_YEAR)),
                   Num(100))]

calculateAPY(strikePrice, optionPremium, daysToExpiration) ==
    IF Le(daysToExpiration, Zero) THEN [threw |-> TRUE, value |-> NaN]
    ELSE LET gain == Div(optionPremium, strikePrice)
             apy == Mul(Div(gain, daysToExpiration), Num(DAYS_IN_YEAR))
         IN  [threw |-> FALSE, value |-> Mul(apy, Num(100))]

----------------------------------------------------------------------------
(* utils.ts, latest version: the chain filter and the put evaluator *)

\* calculateMaxStrikePrice(maxPrice, currentPrice) of the earlier versions of
\* utils.ts: a maxPrice of 1 or more is an absolute price
calculateMaxStrikePriceEarlier(maxPrice, currentPrice) ==
    IF Ge(maxPrice, Num(1)) THEN maxPrice
    ELSE Mul(currentPrice, maxPrice)

\* A resolver that reads a multiplier of 1 or more as a dollar price
calculateMaxStrikePriceAbsolute(priceMultiplier, currentPrice) ==
    IF Ge(priceMultiplier, Num(1)) THEN priceMultiplier
    ELSE Mul(currentPrice, priceMultiplier)

calculateMaxStrikePrice(priceMultiplier, currentPrice) ==
    IF Ge(priceMultiplier, Num(1)) THEN Mul(currentPrice, priceMultiplier)
    ELSE Mul(currentPrice, priceMultiplier)

\* A chain filter that also keeps the rows whose strike is the threshold
filterOptionsByStrikePriceInclusive(optionsChain, strikeThreshold, Optiontype) ==
    LET keep(row) ==
            IF Empty(row.strike) THEN FALSE
            ELSE IF Optiontype = "put"
                 THEN Le(safeParseFloat(row.strike), strikeThreshold)
                      /\ row.p_Bid # StrPlaceholder
                 ELSE Ge(safeParseFloat(row.strike), strikeThreshold)
                      /\ row.c_Bid # StrPlaceholder
    IN  SelectSeq(optionsChain, keep)

\* filterOptionsByStrikePrice with a number for strikeThreshold
filterOptionsByStrikePrice(optionsChain, strikeThreshold, Optiontype) ==
    LET thresholdValue == strikeThreshold
        keep(row) ==
            IF Empty(row.strike) THEN FALSE
            ELSE LET strikeValue == safeParseFloat(row.strike)
                 IN  IF Optiontype = "put"
                     THEN Lt(strikeValue, thresholdValue) /\ row.p_Bid # StrPlaceholder
                     ELSE Gt(strikeValue, thresholdValue) /\ row.c_Bid # StrPlaceholder
    IN  SelectSeq(optionsChain, keep)

MIN_ANN_ROI_PERCENTAGE == 15

\* What one pass of the put evaluator's map callback throws, "none" if nothing:
\* undefined.split(...) is a TypeError, toISOString() of an invalid Date a
\* RangeError.
PutRowError(chainLink, expiryGroups, tz) ==
    IF IsUndefined(chainLink.expiryDate) THEN "TypeError"
    ELSE IF IsNaN(ParseDateLabel(
                 findExpiryGroupStartingWith(chainLink.expiryDate, expiryGroups), tz))
         THEN "RangeError"
    ELSE "none"

\* The object one pass of the put evaluator's map callback returns; `ref` is
\* the identity of the Date it allocates.
PutRowResult(chainLink, currentPrice, ticker, expiryGroups, now, tz, ref) ==
    LET optionPremiumBid == safeParseFloat(chainLink.p_Bid)
        strikePrice == safeParseFloat(chainLink.strike)
        expDate == DateObj(ref, ParseDateLabel(
                       findExpiryGroupStartingWith(chainLink.expiryDate, expiryGroups), tz))
        expDateStr == ISODate(expDate.time)
        daysToExpiration == daysUntil(expDate.time, now, tz)
        daysToCollateralRelease == Add(daysToExpiration, Num(2))
        percentageFromStrike == calculatePercentageChange(strikePrice, currentPrice)
        ROI == Mul(Div(optionPremiumBid, strikePrice), Num(100))
        roiDecimal == Div(optionPremiumBid, strikePrice)
        annualizedROI == AnnualizedROI(roiDecimal, daysToCollateralRelease)
    IN  [ticker |-> ticker,
         currentPrice |-> currentPrice,
         strikePrice |-> strikePrice,
         expDateStr |-> expDateStr,
         expDate |-> expDate,
         daysToExpiration |-> daysToExpiration,
         bid |-> optionPremiumBid,
         percentageFromStrike |-> percentageFromStrike,
         ROI |-> ROI,
         annualizedROI |-> annualizedROI]

\* The elements of seq at the indices of `at`, in the order of seq
RECURSIVE PickRows(_, _, _)
PickRows(seq, at, i) ==
    IF i > Len(seq) THEN <<>>
    ELSE (IF i \in at THEN <<seq[i]>> ELSE <<>>) \o PickRows(seq, at, i + 1)

\* The first error among those the passes of a map callback throw ("none"
\* where a pass throws nothing), "none" if no pass throws.
FirstError(errors) ==
    LET thrown == SelectSeq(errors, LAMBDA error : error # "none")
    IN  IF thrown = <<>> THEN "none" ELSE Head(thrown)

\* The put evaluator without its last step, the filter on the annualized ROI
evaluatePutOptionsPerformanceUnfiltered(chain, currentPrice, ticker, expiryGroups, now, tz, heap) ==
    LET error == FirstError([i \in 1..Len(chain) |-> PutRowError(chain[i], expiryGroups, tz)])
        mapped == [i \in 1..Len(chain) |->
                      PutRowResult(chain[i], currentPrice, ticker, expiryGroups,
                                   now, tz, heap + i)]
    IN  IF error # "none" THEN [error |-> error, value |-> <<>>]
        ELSE [error |-> "none", value |-> mapped]

\* evaluatePutOptionsPerformance(chain, currentPrice, ticker, expiryGroups):
\* the error it throws, or else the list it returns.  `heap` counts the Date
\* objects allocated before the call.
evaluatePutOptionsPerformance(chain, currentPrice, ticker, expiryGroups, now, tz, heap) ==
    LET error == FirstError([i \in 1..Len(chain) |-> PutRowError(chain[i], expiryGroups, tz)])
        mapped == [i \in 1..Len(chain) |->
                      PutRowResult(chain[i], currentPrice, ticker, expiryGroups,
                                   now, tz, heap + i)]
    IN  IF error # "none" THEN [error |-> error, value |-> <<>>]
        ELSE [error |-> "none",
              value |-> SelectSeq(mapped, LAMBDA result :
                            Ge(result.annualizedROI, Num(MIN_ANN_ROI_PERCENTAGE)))]

----------------------------------------------------------------------------
(* Array.prototype.sort and String.prototype.localeCompare *)

\* The characters in collation order: blank, punctuation, digits, letters.
CollationOrder ==
    <<" ", "-", ",", "(", ")", "0", "1", "2", "3", "4", "5", "6", "7", "8", "9">>
    \o <<"a", "A", "b", "B", "c", "C", "d", "D", "e", "E", "f", "F", "g", "G", "h", "H", "i", "I", "j", "J", "k", "K", "l", "L", "m", "M">>
    \o <<"n", "N", "o", "O", "p", "P", "q", "Q", "r", "R", "s", "S", "t", "T", "u", "U", "v", "V", "w", "W", "x", "X", "y", "Y", "z", "Z">>
CollationRank(c) ==
    IF \E i \in 1..Len(CollationOrder) : CollationOrder[i] = c
    THEN CHOOSE i \in 1..Len(CollationOrder) : CollationOrder[i] = c
    ELSE Len(CollationOrder) + 1

\* a.localeCompare(b): negative, zero or positive
RECURSIVE localeCompare(_, _)
localeCompare(a, b) ==
    IF a = <<>> /\ b = <<>> THEN 0
    ELSE IF a = <<>> THEN -1
    ELSE IF b = <<>> THEN 1
    ELSE IF CollationRank(Head(a)) < CollationRank(Head(b)) THEN -1
    ELSE IF CollationRank(Head(a)) > CollationRank(Head(b)) THEN 1
    ELSE localeCompare(Tail(a), Tail(b))

\* The comparator of filterCherries' sort
CompareByExpiryThenStrike(a, b) ==
    IF a.expDateStr = b.expDateStr THEN Sub(a.strikePrice, b.strikePrice)
    ELSE Num(localeCompare(a.expDateStr, b.expDateStr))

\* The comparator of the spread evaluator's sort
CompareByStrike(a, b) ==
    Sub(safeParseFloat(OrZeroStr(a.strike)), safeParseFloat(OrZeroStr(b.strike)))

\* The comparator of the optimizer's sort
CompareByAnnualizedROIDesc(a, b) == Sub(b.annualizedROI, a.annualizedROI)

\* The comparator named compareFn, applied to a and b
Compare(compareFn, a, b) ==
    CASE compareFn = "expiry, strike" -> CompareByExpiryThenStrike(a, b)
      [] compareFn = "strike" -> CompareByStrike(a, b)
      [] compareFn = "annualizedROI, descending" -> CompareByAnnualizedROIDesc(a, b)

\* x inserted into the sorted run: before the elements it compares negative
\* to, after every element that precedes one it does not.
InsertSorted(run, x, compareFn) ==
    LET stay == {i \in 1..Len(run) : ~Lt(Compare(compareFn, x, run[i]), Zero)}
        p == IF stay = {} THEN 0 ELSE CHOOSE i \in stay : \A j \in stay : j <= i
    IN  SubSeq(run, 1, p) \o <<x>> \o SubSeq(run, p + 1, Len(run))

\* [...seq].sort(compareFn): a stable sort
RECURSIVE SortPrefix(_, _, _)
SortPrefix(seq, n, compareFn) ==
    IF n = 0 THEN <<>>
    ELSE InsertSorted(SortPrefix(seq, n - 1, compareFn), seq[n], compareFn)

Sort(seq, compareFn) == SortPrefix(seq, Len(seq), compareFn)

----------------------------------------------------------------------------
(* utils.ts, latest version: the cherry filter (grouped mode) *)

\* The dominance test of a row against the row before it
Dominates(curr, prev) ==
    /\ Lt(Abs(curr.percentageFromStrike), Abs(prev.percentageFromStrike))
    /\ Gt(curr.bid, prev.bid)

\* The cherries of one expiration group, from its element i on
RECURSIVE GroupCherries(_, _)
GroupCherries(currentExpGroup, i) ==
    IF i > Len(currentExpGroup) THEN <<>>
    ELSE (IF Dominates(currentExpGroup[i], currentExpGroup[i - 1])
          THEN <<currentExpGroup[i]>> ELSE <<>>)
         \o GroupCherries(currentExpGroup, i + 1)

\* The grouping loop from element k of sortedOptions on; currentExpDateStr is
\* <<null>> before the first element.
RECURSIVE CherryLoop(_, _, _, _, _)
CherryLoop(sortedOptions, k, cherries, currentExpGroup, currentExpDateStr) ==
    IF k > Len(sortedOptions)
    THEN cherries \o GroupCherries(currentExpGroup, 2)
    ELSE LET option == sortedOptions[k]
         IN  IF <<option.expDateStr>> # currentExpDateStr
             THEN CherryLoop(sortedOptions, k + 1,
                             cherries \o GroupCherries(currentExpGroup, 2),
                             <<option>>, <<option.expDateStr>>)
             ELSE CherryLoop(sortedOptions, k + 1, cherries,
                             Append(currentExpGroup, option), currentExpDateStr)

sortedOptions(putOptions) == Sort(putOptions, "expiry, strike")

\* The cherry filter with the whole sorted list taken as one group
filterCherriesUngrouped(putOptions) ==
    GroupCherries(sortedOptions(putOptions), 2)

filterCherries(putOptions) ==
    CherryLoop(sortedOptions(putOptions), 1, <<>>, <<>>, <<"null">>)

----------------------------------------------------------------------------
(* utils.ts, earlier versions: the APY put evaluator and the cherry filter *)
(* (sequential mode)                                                       *)

MIN_ROI_PERCENTAGE == 15

\* What one pass of the APY evaluator's map callback throws, "none" if nothing
PutRowErrorAPY(chainLink, expiryGroups, now, tz) ==
    IF PutRowError(chainLink, expiryGroups, tz) # "none"
    THEN PutRowError(chainLink, expiryGroups, tz)
    ELSE LET time == ParseDateLabel(
                 findExpiryGroupStartingWith(chainLink.expiryDate, expiryGroups), tz)
         IN  IF calculateAPY(safeParseFloat(chainLink.strike),
                             safeParseFloat(chainLink.p_Bid),
                             daysUntil(time, now, tz)).threw
             THEN "Error" ELSE "none"

PutRowResultAPY(chainLink, currentPrice, ticker, expiryGroups, now, tz, ref) ==
    LET optionPremiumBid == safeParseFloat(chainLink.p_Bid)
        strikePrice == safeParseFloat(chainLink.strike)
        expDate == DateObj(ref, ParseDateLabel(
                       findExpiryGroupStartingWith(chainLink.expiryDate, expiryGroups), tz))
        expDateStr == ISODate(expDate.time)
        daysToExpiration == daysUntil(expDate.time, now, tz)
        percentageFromStrike == calculatePercentageChange(strikePrice, currentPrice)
        ROI == calculateAPY(strikePrice, optionPremiumBid, daysToExpiration).value
    IN  [ticker |-> ticker,
         currentPrice |-> currentPrice,
         strikePrice |-> strikePrice,
         expDateStr |-> expDateStr,
         expDate |-> expDate,
         daysToExpiration |-> daysToExpiration,
         bid |-> optionPremiumBid,
         percentageFromStrike |-> percentageFromStrike,
         ROI |-> ROI]

evaluatePutOptionsPerformanceAPY(chain, currentPrice, ticker, expiryGroups, now, tz, heap) ==
    LET error == FirstError([i \in 1..Len(chain) |-> PutRowErrorAPY(chain[i], expiryGroups, now, tz)])
        mapped == [i \in 1..Len(chain) |->
                      PutRowResultAPY(chain[i], currentPrice, ticker, expiryGroups,
                                      now, tz, heap + i)]
    IN  IF error # "none" THEN [error |-> error, value |-> <<>>]
        ELSE [error |-> "none",
              value |-> SelectSeq(mapped, LAMBDA result :
                            Ge(result.ROI, Num(MIN_ROI_PERCENTAGE)))]

\* a === b for two Date objects: the same object
SameObject(a, b) == a.ref = b.ref

\* filterCherries, sequential mode: the elements the filter callback keeps
filterCherriesSequential(putOptions) ==
    LET keep(idx) ==
            IF idx = 1 THEN FALSE
            ELSE LET option == putOptions[idx]
                     previousOption == putOptions[idx - 1]
                 IN  /\ SameObject(option.expDate, previousOption.expDate)
                     /\ Lt(Abs(option.percentageFromStrike),
                           Abs(previousOption.percentageFromStrike))
                     /\ Gt(option.bid, previousOption.bid)
        kept == {idx \in 1..Len(putOptions) : keep(idx)}
    IN  PickRows(putOptions, kept, 1)

----------------------------------------------------------------------------
(* utils.ts, latest version: the call credit spread optimizer *)

\* option.expiryDate || ''
ExpiryKey(option) == IF Empty(option.expiryDate) THEN <<>> ELSE option.expiryDate

\* The keys of optionsByExpiry in the order Object.entries lists them: the
\* order in which the chain first shows each of them.
ExpiryKeys(chain) ==
    LET first == {i \in 1..Len(chain) :
                     \A j \in 1..(i - 1) : ExpiryKey(chain[j]) # ExpiryKey(chain[i])}
        firstRows == PickRows(chain, first, 1)
    IN  [g \in 1..Len(firstRows) |-> ExpiryKey(firstRows[g])]

\* optionsByExpiry[expDateStr]
OptionsOfExpiry(chain, expDateStr) ==
    SelectSeq(chain, LAMBDA option : ExpiryKey(option) = expDateStr)

\* A search that takes the later option whose strike is nearest to
\* targetLongStrike, below it or above it
LongIndexNearest(sorted, i, targetLongStrike) ==
    LET later == (i + 1)..Len(sorted)
        gap(j) == Abs(Sub(safeParseFloat(OrZeroStr(sorted[j].strike)), targetLongStrike))
    IN  IF later = {} THEN 0
        ELSE CHOOSE j \in later :
                 \A h \in later : Lt(gap(j), gap(h)) \/ (gap(j) = gap(h) /\ j <= h)

\* The index in sortedOptions of the long option for the short option at i:
\* the first j > i whose strike is at least targetLongStrike, 0 when none is.
LongIndex(sorted, i, targetLongStrike) ==
    LET fit == {j \in (i + 1)..Len(sorted) :
                    Ge(safeParseFloat(OrZeroStr(sorted[j].strike)), targetLongStrike)}
    IN  IF fit = {} THEN 0 ELSE CHOOSE j \in fit : \A h \in fit : j <= h

\* a || b for two numbers
OrElse(a, b) == IF Falsy(a) THEN b ELSE a

\* The `continue`s of the loop once a long option is found: no valid ask, no
\* net credit, no risk, or an annualized ROI below the threshold.
SpreadSkipped(longAsk, netCredit, maxRisk, annualizedROI, minAnnualizedROI) ==
    \/ Le(longAsk, Zero)
    \/ Le(netCredit, Zero)
    \/ Le(maxRisk, Zero)
    \/ Lt(annualizedROI, minAnnualizedROI)

\* The end of a pass of the loop, from the two legs it has parsed: the result
\* it pushes, none when one of its last four `continue`s is taken.
SpreadOfLegs(shortStrike, shortBid, longStrike, longAsk, expDateStr, expDate, daysToExpiration, currentPrice, ticker, spreadWidthPercent, minAnnualizedROI) ==
    LET netCredit == Sub(shortBid, longAsk)
        maxRisk == Sub(Sub(longStrike, shortStrike), netCredit)
        roi == Mul(Div(netCredit, maxRisk), Num(100))
        annualizedROI == AnnualizedROI(Div(roi, Num(100)), Add(daysToExpiration, Num(2)))
    IN  IF SpreadSkipped(longAsk, netCredit, maxRisk, annualizedROI, minAnnualizedROI)
        THEN <<>>
        ELSE <<[ticker |-> ticker,
                currentPrice |-> currentPrice,
                strikePrice |-> shortStrike,
                expDateStr |-> expDateStr,
                expDate |-> expDate,
                daysToExpiration |-> daysToExpiration,
                bid |-> netCredit,
                percentageFromStrike |->
                    calculatePercentageChange(shortStrike, currentPrice),
                ROI |-> roi,
                annualizedROI |-> annualizedROI,
                spreadWidthPercent |-> spreadWidthPercent,
                longStrike |-> longStrike]>>

\* A pass of the loop from the search for its long option on: j is the index
\* the search ends with, 0 when it finds none (`if (!longOption) continue`).
SpreadOfLong(sorted, j, shortStrike, shortBid, expDateStr, expDate, daysToExpiration, currentPrice, ticker, spreadWidthPercent, minAnnualizedROI) ==
    IF j = 0 THEN <<>>
    ELSE SpreadOfLegs(shortStrike, shortBid,
                      safeParseFloat(OrZeroStr(sorted[j].strike)),
                      OrElse(safeParseFloat(OrZeroStr(sorted[j].c_Ask)),
                             Mul(safeParseFloat(OrZeroStr(sorted[j].c_Bid)), Rat(11, 10))),
                      expDateStr, expDate, daysToExpiration, currentPrice, ticker,
                      spreadWidthPercent, minAnnualizedROI)

\* A pass of the loop once its short option is parsed
SpreadOfShort(sorted, i, shortStrike, shortBid, expDateStr, expDate, daysToExpiration, currentPrice, ticker, spreadWidthPercent, minAnnualizedROI) ==
    IF Le(shortBid, Zero) THEN <<>>
    ELSE SpreadOfLong(sorted,
                      LongIndex(sorted, i, Mul(shortStrike, Add(Num(1), spreadWidthPercent))),
                      shortStrike, shortBid, expDateStr, expDate, daysToExpiration,
                      currentPrice, ticker, spreadWidthPercent, minAnnualizedROI)

\* The expiration date of a group and the days to it, with the results the
\* pass for short option i pushes
SpreadOfExpDate(sorted, i, expDateStr, expDate, currentPrice, ticker, spreadWidthPercent, minAnnualizedROI, now, tz) ==
    SpreadOfShort(sorted, i,
                  safeParseFloat(OrZeroStr(sorted[i].strike)),
                  safeParseFloat(OrZeroStr(sorted[i].c_Bid)),
                  expDateStr, expDate, daysUntil(expDate.time, now, tz),
                  currentPrice, ticker, spreadWidthPercent, minAnnualizedROI)

\* One pass of the loop over the short options of an expiration group: the
\* results it pushes (none or one).
SpreadCandidate(sorted, i, expDateStr, currentPrice, ticker, spreadWidthPercent, minAnnualizedROI, now, tz, ref) ==
    SpreadOfExpDate(sorted, i, expDateStr,
                    DateObj(ref, convertStringToDate(expDateStr, now, tz)),
                    currentPrice, ticker, spreadWidthPercent, minAnnualizedROI, now, tz)

\* The results the loop over sortedOptions pushes from its pass i on
RECURSIVE SpreadsFrom(_, _, _, _, _, _, _, _, _, _)
SpreadsFrom(sorted, i, expDateStr, currentPrice, ticker, spreadWidthPercent, minAnnualizedROI, now, tz, heap) ==
    IF i > Len(sorted) - 1 THEN <<>>
    ELSE SpreadCandidate(sorted, i, expDateStr, currentPrice, ticker,
                         spreadWidthPercent, minAnnualizedROI, now, tz, heap + i)
         \o SpreadsFrom(sorted, i + 1, expDateStr, currentPrice, ticker,
                        spreadWidthPercent, minAnnualizedROI, now, tz, heap)

\* The results one expiration group pushes, in the order of its short options
SpreadsOfExpiry(chain, expDateStr, currentPrice, ticker, spreadWidthPercent, minAnnualizedROI, now, tz, heap) ==
    SpreadsFrom(Sort(OptionsOfExpiry(chain, expDateStr), "strike"), 1, expDateStr,
                currentPrice, ticker, spreadWidthPercent, minAnnualizedROI, now, tz, heap)

\* The results the expiration groups push from group g of optionsByExpiry on
RECURSIVE SpreadsFromGroup(_, _, _, _, _, _, _, _, _)
SpreadsFromGroup(chain, g, currentPrice, ticker, spreadWidthPercent, minAnnualizedROI, now, tz, heap) ==
    IF g > Len(ExpiryKeys(chain)) THEN <<>>
    ELSE SpreadsOfExpiry(chain, ExpiryKeys(chain)[g], currentPrice, ticker,
                         spreadWidthPercent, minAnnualizedROI, now, tz,
                         heap + (g - 1) * Len(chain))
         \o SpreadsFromGroup(chain, g + 1, currentPrice, ticker, spreadWidthPercent,
                             minAnnualizedROI, now, tz, heap)

\* evaluateCallCreditSpreadPerformance(chain, currentPrice, ticker, expiryGroups,
\* spreadWidthPercent, minAnnualizedROI); expiryGroups is not read.
evaluateCallCreditSpreadPerformance(chain, currentPrice, ticker, spreadWidthPercent, minAnnualizedROI, now, tz, heap) ==
    SpreadsFromGroup(chain, 1, currentPrice, ticker, spreadWidthPercent, minAnnualizedROI,
                     now, tz, heap)

spreadWidths == <<Rat(1, 100), Rat(2, 100), Rat(3, 100), Rat(5, 100),
                  Rat(7, 100), Rat(10, 100), Rat(15, 100), Rat(20, 100)>>

\* The results spreadWidths.forEach appends to allResults from width w on
RECURSIVE SpreadsFromWidth(_, _, _, _, _, _, _, _)
SpreadsFromWidth(chain, w, currentPrice, ticker, minAnnualizedROI, now, tz, heap) ==
    IF w > Len(spreadWidths) THEN <<>>
    ELSE evaluateCallCreditSpreadPerformance(
             chain, currentPrice, ticker, spreadWidths[w], minAnnualizedROI,
             now, tz, heap + (w - 1) * Len(chain) * Len(chain))
         \o SpreadsFromWidth(chain, w + 1, currentPrice, ticker, minAnnualizedROI, now, tz, heap)

\* allResults of findOptimalCallCreditSpreads: the results of every width, in
\* the order of the widths
AllSpreadResults(chain, currentPrice, ticker, minAnnualizedROI, now, tz, heap) ==
    SpreadsFromWidth(chain, 1, currentPrice, ticker, minAnnualizedROI, now, tz, heap)

\* `${result.ticker}-${result.strikePrice}-${result.expDateStr}`, as the three
\* values it is built from
ResultKey(result) == <<result.ticker, result.strikePrice, result.expDateStr>>

\* No deduplication: every result of every width
UniqueResultsAll(allResults) == allResults

\* Deduplication that keeps the first result of a key, whatever follows
UniqueResultsFirst(allResults) ==
    PickRows(allResults,
             {k \in 1..Len(allResults) :
                  \A h \in 1..(k - 1) : ResultKey(allResults[h]) # ResultKey(allResults[k])},
             1)

\* The entries of the Map uniqueResults, in the order their keys were first
\* set, once allResults.forEach has gone from element k to the end
RECURSIVE SetResults(_, _, _)
SetResults(entries, allResults, k) ==
    IF k > Len(allResults) THEN entries
    ELSE LET result == allResults[k]
             at == {e \in 1..Len(entries) : ResultKey(entries[e]) = ResultKey(result)}
         IN  IF at = {} THEN SetResults(Append(entries, result), allResults, k + 1)
             ELSE LET e == CHOOSE x \in at : TRUE
                  IN  IF Lt(entries[e].annualizedROI, result.annualizedROI)
                      THEN SetResults([entries EXCEPT ![e] = result], allResults, k + 1)
                      ELSE SetResults(entries, allResults, k + 1)

\* uniqueResults after allResults.forEach
UniqueResults(allResults) == SetResults(<<>>, allResults, 1)

findOptimalCallCreditSpreads(chain, currentPrice, ticker, minAnnualizedROI, now, tz, heap) ==
    Sort(UniqueResults(AllSpreadResults(chain, currentPrice, ticker, minAnnualizedROI,
                                        now, tz, heap)),
         "annualizedROI, descending")

----------------------------------------------------------------------------
(* utils.ts and the scripts: the quote provider and the loop over the tickers *)

\* getOptionQuote(ticker, maxExpDate, Optiontype), for what the fetch gave:
\* `failed` when fetch or json() threw, else the rows and the last trade price
getOptionQuote(response) ==
    IF response.failed \/ response.rows = <<>>
    THEN [rows |-> <<>>, currentPrice |-> Zero]
    ELSE [rows |-> response.rows, currentPrice |-> response.lastTrade]

\* expiry.trim() === ''
IsBlank(expiry) == \A i \in 1..Len(expiry) : expiry[i] = " "

\* getUniqueExpiryGroups(optionsChain)
getUniqueExpiryGroups(optionsChain) ==
    LET labels == SelectSeq([i \in 1..Len(optionsChain) |-> optionsChain[i].expirygroup],
                            LAMBDA expiry : ~Empty(expiry) /\ ~IsBlank(expiry))
    IN  PickRows(labels,
                 {i \in 1..Len(labels) : \A j \in 1..(i - 1) : labels[j] # labels[i]},
                 1)

\* put.ts, lines 29-33 of the loop body: what evaluatePutOptionsPerformance
\* throws or returns for a ticker
PutPerformance(stockInputRow, quote, now, tz, heap) ==
    evaluatePutOptionsPerformance(
        filterOptionsByStrikePrice(
            quote.rows,
            calculateMaxStrikePrice(stockInputRow.maxStrikePrice, quote.currentPrice),
            "put"),
        quote.currentPrice, stockInputRow.symbol, getUniqueExpiryGroups(quote.rows),
        now, tz, heap)

\* put.ts, lines 36-37: the cherries (CHEERIES_ONLY is true), sorted
PutTickerList(putOptionPerformance) ==
    Sort(filterCherries(putOptionPerformance), "annualizedROI, descending")

\* PushByTicker with one list shared by all the tickers
PushByTickerShared(resultsByTicker, symbol, list) ==
    IF resultsByTicker = <<>> THEN <<[symbol |-> symbol, results |-> list]>>
    ELSE [resultsByTicker EXCEPT ![1].results = @ \o list]

\* put.ts, lines 40-43: resultsByTicker[symbol].push(...putOptionPerformance),
\* resultsByTicker as its entries in the order of their keys
PushByTicker(resultsByTicker, symbol, list) ==
    IF \E e \in 1..Len(resultsByTicker) : resultsByTicker[e].symbol = symbol
    THEN [e \in 1..Len(resultsByTicker) |->
             IF resultsByTicker[e].symbol = symbol
             THEN [resultsByTicker[e] EXCEPT !.results = @ \o list]
             ELSE resultsByTicker[e]]
    ELSE Append(resultsByTicker, [symbol |-> symbol, results |-> list])

\* put.ts, lines 52-54: the tickers printed are those with results
PrintedByTicker(resultsByTicker) ==
    SelectSeq(resultsByTicker, LAMBDA entry : entry.results # <<>>)

\* creditspread.ts, lines 32-44 of the loop body: optimalSpreads of a ticker
OptimalSpreads(stockInputRow, quote, minAnnualizedROI, now, tz, heap) ==
    findOptimalCallCreditSpreads(
        filterOptionsByStrikePrice(
            quote.rows,
            calculateMaxStrikePrice(stockInputRow.maxStrikePrice, quote.currentPrice),
            "call"),
        quote.currentPrice, stockInputRow.symbol, minAnnualizedROI, now, tz, heap)

\* creditspread.ts, lines 50-58: the entries of the Map bestROIByStrike, in
\* the order their keys were first set, once resultArr.forEach has gone from
\* element k to the end
RECURSIVE SetBestROI(_, _, _)
SetBestROI(entries, resultArr, k) ==
    IF k > Len(resultArr) THEN entries
    ELSE LET same == {e \in 1..Len(entries) :
                         /\ entries[e].ticker = resultArr[k].ticker
                         /\ entries[e].strikePrice = resultArr[k].strikePrice}
         IN  IF same = {}
             THEN SetBestROI(Append(entries, resultArr[k]), resultArr, k + 1)
             ELSE IF Lt(entries[CHOOSE e \in same : TRUE].ROI, resultArr[k].ROI)
             THEN SetBestROI([entries EXCEPT ![CHOOSE e \in same : TRUE] = resultArr[k]],
                             resultArr, k + 1)
             ELSE SetBestROI(entries, resultArr, k + 1)

\* creditspread.ts, lines 61-62: filteredResults
FilteredResults(resultArr) ==
    Sort(SetBestROI(<<>>, resultArr, 1), "annualizedROI, descending")

----------------------------------------------------------------------------
(* The inputs the runs are drawn from *)

\* The longest option chain handed to an evaluator
MaxRows == 3
\* The most days an instant handed to daysUntil lies after its anchor day
MaxLead == 3

Ticker == <<"A", "A", "P", "L">>
CurrentPrice == Num(110)

\* Raw expiry tokens of chain rows (OptionChainLink.expiryDate)
TokenFeb25 == <<"F", "e", "b", " ", "2", "5">>
TokenFeb2 == <<"F", "e", "b", " ", "2">>
TokenMar21 == <<"M", "a", "r", " ", "2", "1">>
TokenUnknownMonth == <<"F", "o", "o", " ", "1">>

\* Expiration labels (OptionChainLink.expirygroup)
LabelFeb25 == <<"F", "e", "b", "r", "u", "a", "r", "y", " ", "2", "5", ",", " ", "2", "0", "2", "5", " ", "(", "M", "o", "n", "t", "h", "l", "y", ")">>
LabelFeb2 == <<"F", "e", "b", "r", "u", "a", "r", "y", " ", "2", ",", " ", "2", "0", "2", "5">>
LabelMar21 == <<"M", "a", "r", "c", "h", " ", "2", "1", ",", " ", "2", "0", "2", "5">>

ExpiryGroupLists ==
    {<<LabelFeb2, LabelFeb25, LabelMar21>>, <<LabelFeb25, LabelFeb2>>}

\* A put row: strike, p_Bid and expiry token as the API sends them
PutRow(strike, pBid, expiryDate) ==
    ChainLink(strike, pBid, Undefined, Undefined, expiryDate, Undefined)

PutRows ==
    {PutRow(<<"9", "5">>, <<"2", ".", "5", "0">>, TokenFeb25),
     PutRow(<<"1", "0", "0">>, <<"3", ".", "0", "0">>, TokenFeb25),
     PutRow(<<"1", "0", "0">>, <<"2", ".", "8", "0">>, TokenFeb25),
     PutRow(<<"1", "0", "0">>, <<"1", ".", "0", "0">>, TokenMar21),
     PutRow(<<"1", "0", "5">>, <<"4", ".", "0", "0">>, TokenMar21),
     PutRow(<<"1", "0", "0">>, <<"3", ".", "0", "0">>, TokenUnknownMonth),
     PutRow(<<"9", "0">>, <<"a", "b", "c">>, TokenFeb2),
     PutRow(<<"1", "0", "5">>, <<"4", ".", "0", "0">>, Undefined)}

\* A call row: strike, c_Bid, c_Ask and expiry token as the API sends them
CallRow(strike, cBid, cAsk, expiryDate) ==
    ChainLink(strike, Undefined, cBid, cAsk, expiryDate, Undefined)

\* The call chain the API returns, in the order it lists the rows
CallChain ==
    <<CallRow(<<"1", "0", "0">>, <<"3", ".", "0", "0">>, <<"3", ".", "2", "0">>, TokenFeb25),
      CallRow(<<"1", "0", "7">>, <<"1", ".", "0", "0">>, <<"0", ".", "1", "0">>, TokenFeb25),
      CallRow(<<"1", "0", "3">>, <<"2", ".", "0", "0">>, <<"2", ".", "1", "0">>, TokenFeb25),
      CallRow(<<"1", "0", "5">>, <<"a", "b", "c">>, Undefined, TokenFeb25),
      CallRow(<<"1", "0", "5">>, <<"3", ".", "5", "0">>, <<"3", ".", "6", "0">>, TokenFeb25),
      CallRow(<<"1", "1", "0">>, <<"0", ".", "5", "0">>, Undefined, TokenFeb25),
      CallRow(<<"1", "0", "0">>, <<"3", ".", "0", "0">>, <<"3", ".", "2", "0">>, Undefined),
      CallRow(<<"1", "0", "3">>, <<"2", ".", "0", "0">>, <<"2", ".", "1", "0">>, <<>>),
      CallRow(<<"1", "0", "0">>, <<"3", ".", "0", "0">>, <<"3", ".", "2", "0">>, TokenUnknownMonth),
      CallRow(<<"1", "0", "3">>, <<"2", ".", "0", "0">>, <<"2", ".", "1", "0">>, TokenUnknownMonth),
      CallRow(<<"1", "1", "0">>, <<"0", ".", "5", "0">>, <<"-", "0", ".", "1", "0">>, TokenFeb25)>>

\* A row of the raw chain as the filter reads it: strike and the two bids
QuoteRow(strike, pBid, cBid) ==
    ChainLink(strike, pBid, cBid, Undefined, TokenFeb25, Undefined)

\* The raw chain the API returns for the filter, in the order it lists the
\* rows: plain rows, a row without quotes, a strike with a thousands
\* separator, a header row (no strike), an empty, a non-numeric and a
\* placeholder strike, rows without bids
RawChain ==
    <<QuoteRow(<<"9", "5">>, <<"2", ".", "5", "0">>, <<"1", ".", "0", "0">>),
      QuoteRow(<<"1", "0", "0">>, <<"3", ".", "0", "0">>, <<"2", ".", "0", "0">>),
      QuoteRow(<<"1", "0", "5">>, StrPlaceholder, StrPlaceholder),
      QuoteRow(<<"1", ",", "2", "5", "0", ".", "0", "0">>, <<"4", ".", "0", "0">>, <<"0", ".", "5", "0">>),
      QuoteRow(Undefined, Undefined, Undefined),
      QuoteRow(<<>>, <<"1", ".", "0", "0">>, <<"1", ".", "0", "0">>),
      QuoteRow(<<"a", "b", "c">>, <<"1", ".", "0", "0">>, <<"1", ".", "0", "0">>),
      QuoteRow(StrPlaceholder, <<"1", ".", "0", "0">>, <<"1", ".", "0", "0">>),
      QuoteRow(<<"9", "0">>, Undefined, Undefined),
      QuoteRow(<<"1", "1", "0">>, <<>>, <<>>),
      QuoteRow(<<"1", "2", "0">>, StrPlaceholder, <<"3", ".", "0", "0">>)>>

\* The most tickers an input file lists
MaxTickers == 2

OtherTicker == <<"M", "S", "F", "T">>

\* The rows of an input file (parsePutParams, parseCreditSpreadParams)
StockRows ==
    {[symbol |-> Ticker, maxStrikePrice |-> Num(1)],
     [symbol |-> OtherTicker, maxStrikePrice |-> Rat(9, 10)]}

\* A header row of the raw chain: the label of an expiration group
HeaderRow(expirygroup) ==
    ChainLink(Undefined, Undefined, Undefined, Undefined, Undefined, expirygroup)

\* What the fetch of a put chain can give: a failure, no rows, a chain with
\* three rows of one expiration, a chain with a row of an unknown expiration
PutResponses ==
    {[failed |-> TRUE, rows |-> <<>>, lastTrade |-> Zero],
     [failed |-> FALSE, rows |-> <<>>, lastTrade |-> CurrentPrice],
     [failed |-> FALSE,
      rows |-> <<HeaderRow(LabelFeb25),
                 PutRow(<<"9", "0">>, <<"2", ".", "0", "0">>, TokenFeb25),
                 PutRow(<<"9", "5">>, <<"2", ".", "5", "0">>, TokenFeb25),
                 PutRow(<<"9", "8">>, <<"3", ".", "0", "0">>, TokenFeb25)>>,
      lastTrade |-> CurrentPrice],
     [failed |-> FALSE,
      rows |-> <<HeaderRow(LabelFeb25),
                 PutRow(<<"9", "5">>, <<"2", ".", "5", "0">>, TokenUnknownMonth)>>,
      lastTrade |-> CurrentPrice]}

\* A call chain with the strikes 100 and 103 in two expirations; the bid of
\* strike 100 in the later expiration is given
TwoExpiries(laterBid) ==
    <<CallRow(<<"1", "0", "0">>, <<"3", ".", "0", "0">>, <<"3", ".", "2", "0">>, TokenFeb25),
      CallRow(<<"1", "0", "3">>, <<"2", ".", "0", "0">>, <<"2", ".", "1", "0">>, TokenFeb25),
      CallRow(<<"1", "0", "0">>, laterBid, <<"3", ".", "3", "0">>, TokenMar21),
      CallRow(<<"1", "0", "3">>, <<"2", ".", "0", "0">>, <<"2", ".", "1", "0">>, TokenMar21)>>

\* What the fetch of a call chain can give: a failure, no rows, a chain of one
\* expiration, a chain whose expiry tokens name no month, chains with the
\* same strike in two expirations (of equal ROI, of a higher ROI in the later
\* one), a chain with a bid that is not a number
CallResponses ==
    {[failed |-> TRUE, rows |-> <<>>, lastTrade |-> Zero],
     [failed |-> FALSE, rows |-> <<>>, lastTrade |-> Num(95)],
     [failed |-> FALSE, rows |-> SubSeq(CallChain, 1, 3), lastTrade |-> Num(95)],
     [failed |-> FALSE, rows |-> SubSeq(CallChain, 9, 10), lastTrade |-> Num(95)],
     [failed |-> FALSE, rows |-> TwoExpiries(<<"3", ".", "0", "0">>), lastTrade |-> Num(95)],
     [failed |-> FALSE, rows |-> TwoExpiries(<<"3", ".", "1", "0">>), lastTrade |-> Num(95)],
     [failed |-> FALSE,
      rows |-> <<CallChain[1], CallChain[4]>> \o SubSeq(TwoExpiries(<<"3", ".", "0", "0">>), 3, 4),
      lastTrade |-> Num(95)]}

\* The multipliers of the input files and the prices getOptionQuote returns
\* (0 when the fetch failed)
PriceMultipliers == {Rat(9, 10), Num(1), Rat(11, 10)}
LastTrades == {Num(100), Zero}

\* The chains of at most n rows of seq
SubChains(seq, n) ==
    {PickRows(seq, at, 1) : at \in {a \in SUBSET (1..Len(seq)) : Cardinality(a) <= n}}

\* The sequences over S of length at most n
SeqsUpTo(S, n) == UNION {[1..m -> S] : m \in 0..n}

\* Instants (hours since 2025-01-01 00:00 UTC) the scripts run at: new year's
\* day at noon, the morning of the February 25 expiration, the last hour of
\* February
Nows == {12, DayNumber(2025, 2, 25) * HoursInADay + 10, DayNumber(2025, 2, 28) * HoursInADay + 23}
\* UTC offsets (hours) of the zone the process runs in
TimeZones == {0, 2}

\* Instants handed to daysUntil: hours of the days at and after a plain day,
\* the eve of the start and the eve of the end of daylight saving time
AnchorDays == {DayNumber(2025, 1, 14), DayNumber(2025, 3, 8), DayNumber(2025, 11, 1)}
HoursOfDay == {0, 5, 6, 7, 13}
Instants == {(a + l) * HoursInADay + h : a \in AnchorDays, l \in 0..MaxLead, h \in HoursOfDay}

----------------------------------------------------------------------------
(* The scripts as state machines *)

VARIABLES
    pc,             \* what has run so far
    now,            \* the instant the run takes place at (Date.now())
    tz,             \* the UTC offset of the process's zone
    heap,           \* the number of Date objects allocated so far
    chain,          \* the option chain handed to the evaluator
    expiryGroups,   \* the expiration labels handed to the evaluator
    puts,           \* what the put evaluator threw or returned
    cherries,       \* what filterCherries returned
    width,          \* index in spreadWidths of the width of the single evaluation
    spreads,        \* what evaluateCallCreditSpreadPerformance returned
    allResults,     \* allResults of findOptimalCallCreditSpreads
    optimal,        \* what findOptimalCallCreditSpreads returned
    date,           \* the time value of the Date handed to daysUntil
    days,           \* what daysUntil returned
    side,           \* the Optiontype handed to the chain filter
    multiplier,     \* the multiplier of the input row
    lastTrade,      \* the current price getOptionQuote returned
    threshold,      \* what calculateMaxStrikePrice returned
    filtered,       \* what filterOptionsByStrikePrice returned
    apyInput,       \* the strike, premium and days handed to calculateAPY
    apy,            \* what calculateAPY threw or returned
    script,         \* the script that runs: "put" or "creditspread"
    stocks,         \* stocksInputData: the rows of the input file
    cursor,         \* the index in stocks of the next ticker of the loop
    quotes,         \* what getOptionQuote returned for the tickers processed
    candidates,     \* the list the last ticker processed contributed
    collected,      \* resultsByTicker (put.ts) or resultArr (creditspread.ts)
    printed,        \* the results the script prints once the loop has ended
    expiryToken,    \* the raw expiry token handed to the date resolver
    labelList,      \* the expiration labels handed to findExpiryGroupStartingWith
    converted,      \* the time value of the Date convertStringToDate returned
    resolved,       \* what findExpiryGroupStartingWith returned
    percentInput,   \* the strike and the price handed to calculatePercentageChange
    percent         \* what calculatePercentageChange returned

filterVars == <<side, multiplier, lastTrade, threshold, filtered>>
apyVars == <<apyInput, apy>>
loopVars == <<script, stocks, cursor, quotes, candidates, collected, printed>>
dateVars == <<expiryToken, labelList, converted, resolved>>
percentVars == <<percentInput, percent>>

vars == <<pc, now, tz, heap, chain, expiryGroups, puts, cherries, width, spreads,
          allResults, optimal, date, days, filterVars, apyVars, loopVars, dateVars,
          percentVars>>

NotRun == [error |-> "not run", value |-> <<>>]

Idle ==
    /\ pc = "start"
    /\ heap = 0
    /\ puts = NotRun
    /\ cherries = <<>>
    /\ width = 0
    /\ spreads = <<>>
    /\ allResults = <<>>
    /\ optimal = <<>>
    /\ days = Zero
    /\ threshold = Zero
    /\ filtered = <<>>
    /\ apy = [threw |-> FALSE, value |-> Zero]
    /\ cursor = 1
    /\ quotes = <<>>
    /\ candidates = <<>>
    /\ collected = <<>>
    /\ printed = <<>>
    /\ converted = Zero
    /\ resolved = Undefined
    /\ percent = Zero

\* No token is handed to the date resolver, no price to calculatePercentageChange
NoToken ==
    /\ expiryToken = <<>>
    /\ labelList = <<>>
    /\ percentInput = [targetPrice |-> Zero, currentPrice |-> Zero]

\* put.ts: a chain and its expiration labels have been fetched
InitPuts ==
    /\ Idle
    /\ NoToken
    /\ apyInput = [strikePrice |-> Zero, optionPremium |-> Zero, daysToExpiration |-> Zero]
    /\ script = "none" /\ stocks = <<>>
    /\ side = "put" /\ multiplier = Num(1) /\ lastTrade = CurrentPrice
    /\ now \in Nows
    /\ tz \in TimeZones
    /\ chain \in SeqsUpTo(PutRows, MaxRows)
    /\ expiryGroups \in ExpiryGroupLists
    /\ date = Zero

\* evaluatePutOptionsPerformance(chain, currentPrice, ticker, expiryGroups),
\* latest version
EvaluatePuts ==
    /\ pc = "start"
    /\ puts' = evaluatePutOptionsPerformance(chain, CurrentPrice, Ticker, expiryGroups,
                                             now, tz, heap)
    /\ pc' = IF puts'.error = "none" THEN "putsEvaluated" ELSE "putsFailed"
    /\ heap' = heap + Len(chain)
    /\ UNCHANGED <<dateVars, percentVars,
                   now, tz, chain, expiryGroups, cherries, width, spreads, allResults,
                   optimal, date, days, filterVars, apyVars,
                   loopVars>>

\* filterCherries(analyzedPutOptions), grouped mode
FilterCherries ==
    /\ pc = "putsEvaluated"
    /\ cherries' = filterCherries(puts.value)
    /\ pc' = "cherriesFiltered"
    /\ UNCHANGED <<dateVars, percentVars,
                   now, tz, heap, chain, expiryGroups, puts, width, spreads, allResults,
                   optimal, date, days, filterVars, apyVars,
                   loopVars>>

\* evaluatePutOptionsPerformance(chain, currentPrice, ticker, expiryGroups),
\* the APY version
EvaluatePutsAPY ==
    /\ pc = "start"
    /\ puts' = evaluatePutOptionsPerformanceAPY(chain, CurrentPrice, Ticker, expiryGroups,
                                                now, tz, heap)
    /\ pc' = IF puts'.error = "none" THEN "apyEvaluated" ELSE "apyFailed"
    /\ heap' = heap + Len(chain)
    /\ UNCHANGED <<dateVars, percentVars,
                   now, tz, chain, expiryGroups, cherries, width, spreads, allResults,
                   optimal, date, days, filterVars, apyVars,
                   loopVars>>

\* filterCherries(analyzedPutOptions), sequential mode
FilterCherriesSequential ==
    /\ pc = "apyEvaluated"
    /\ cherries' = filterCherriesSequential(puts.value)
    /\ pc' = "sequentialFiltered"
    /\ UNCHANGED <<dateVars, percentVars,
                   now, tz, heap, chain, expiryGroups, puts, width, spreads, allResults,
                   optimal, date, days, filterVars, apyVars,
                   loopVars>>

NextPuts ==
    \/ EvaluatePuts
    \/ FilterCherries
    \/ EvaluatePutsAPY
    \/ FilterCherriesSequential

Spec == InitPuts /\ [][NextPuts]_vars

\* creditspread.ts: a call chain has been fetched
InitSpreads ==
    /\ Idle
    /\ NoToken
    /\ apyInput = [strikePrice |-> Zero, optionPremium |-> Zero, daysToExpiration |-> Zero]
    /\ script = "none" /\ stocks = <<>>
    /\ side = "put" /\ multiplier = Num(1) /\ lastTrade = CurrentPrice
    /\ now \in Nows
    /\ tz \in TimeZones
    /\ chain \in SubChains(CallChain, MaxRows)
    /\ expiryGroups = <<>>
    /\ date = Zero

\* The threshold creditspread.ts passes, the default of minAnnualizedROI
MIN_ANNUALIZED_ROI == 15

\* evaluateCallCreditSpreadPerformance(chain, currentPrice, ticker, expiryGroups,
\* spreadWidthPercent) for a width of the ladder
EvaluateSpreads ==
    /\ pc = "start"
    /\ \E w \in 1..Len(spreadWidths) :
           /\ width' = w
           /\ spreads' = evaluateCallCreditSpreadPerformance(
                             chain, CurrentPrice, Ticker, spreadWidths[w],
                             Num(MIN_ANNUALIZED_ROI), now, tz, heap)
    /\ pc' = "spreadsEvaluated"
    /\ heap' = heap + Len(chain) * Len(chain)
    /\ UNCHANGED <<dateVars, percentVars,
                   now, tz, chain, expiryGroups, puts, cherries, allResults, optimal,
                   date, days, filterVars, apyVars,
                   loopVars>>

\* findOptimalCallCreditSpreads(chain, currentPrice, ticker, expiryGroups)
OptimizeSpreads ==
    /\ pc = "start"
    /\ allResults' = AllSpreadResults(chain, CurrentPrice, Ticker,
                                      Num(MIN_ANNUALIZED_ROI), now, tz, heap)
    /\ optimal' = findOptimalCallCreditSpreads(chain, CurrentPrice, Ticker,
                                               Num(MIN_ANNUALIZED_ROI), now, tz, heap)
    /\ pc' = "spreadsOptimized"
    /\ heap' = heap + Len(spreadWidths) * Len(chain) * Len(chain)
    /\ UNCHANGED <<dateVars, percentVars,
                   now, tz, chain, expiryGroups, puts, cherries, width, spreads,
                   date, days, filterVars, apyVars,
                   loopVars>>

NextSpreads ==
    \/ EvaluateSpreads
    \/ OptimizeSpreads

SpecSpreads == InitSpreads /\ [][NextSpreads]_vars

\* A Date and the instant daysUntil is called at
InitDays ==
    /\ Idle
    /\ NoToken
    /\ apyInput = [strikePrice |-> Zero, optionPremium |-> Zero, daysToExpiration |-> Zero]
    /\ script = "none" /\ stocks = <<>>
    /\ side = "put" /\ multiplier = Num(1) /\ lastTrade = CurrentPrice
    /\ now \in Instants
    /\ tz \in TimeZones
    /\ date \in {Num(t) : t \in Instants}
    /\ chain = <<>>
    /\ expiryGroups = <<>>

\* daysUntil(date)
ComputeDays ==
    /\ pc = "start"
    /\ days' = daysUntil(date, now, tz)
    /\ pc' = "daysComputed"
    /\ UNCHANGED <<dateVars, percentVars,
                   now, tz, heap, chain, expiryGroups, puts, cherries, width, spreads,
                   allResults, optimal, date, filterVars, apyVars,
                   loopVars>>

NextDays == ComputeDays

SpecDays == InitDays /\ [][NextDays]_vars

\* put.ts, creditspread.ts: the raw chain of a ticker has been fetched and the
\* multiplier of its input row read
InitFilter ==
    /\ Idle
    /\ NoToken
    /\ apyInput = [strikePrice |-> Zero, optionPremium |-> Zero, daysToExpiration |-> Zero]
    /\ script = "none" /\ stocks = <<>>
    /\ now = 12
    /\ tz = 0
    /\ chain \in SubChains(RawChain, MaxRows)
    /\ expiryGroups = <<>>
    /\ date = Zero
    /\ side \in {"put", "call"}
    /\ multiplier \in PriceMultipliers
    /\ lastTrade \in LastTrades

\* calculateMaxStrikePrice(maxStrikePrice, currentPrice)
ResolveThreshold ==
    /\ pc = "start"
    /\ threshold' = calculateMaxStrikePrice(multiplier, lastTrade)
    /\ pc' = "thresholdResolved"
    /\ UNCHANGED <<dateVars, percentVars,
                   now, tz, heap, chain, expiryGroups, puts, cherries, width, spreads,
                   allResults, optimal, date, days, side, multiplier, lastTrade,
                   filtered, apyVars, loopVars>>

\* calculateMaxStrikePrice(maxStrikePrice, currentPrice), earlier versions
ResolveThresholdEarlier ==
    /\ pc = "start"
    /\ threshold' = calculateMaxStrikePriceEarlier(multiplier, lastTrade)
    /\ pc' = "thresholdResolvedEarlier"
    /\ UNCHANGED <<dateVars, percentVars,
                   now, tz, heap, chain, expiryGroups, puts, cherries, width, spreads,
                   allResults, optimal, date, days, side, multiplier, lastTrade,
                   filtered, apyVars, loopVars>>

\* filterOptionsByStrikePrice(stockOptionsChain, threshold, side)
FilterChain ==
    /\ pc \in {"thresholdResolved", "thresholdResolvedEarlier"}
    /\ filtered' = filterOptionsByStrikePrice(chain, threshold, side)
    /\ pc' = "chainFiltered"
    /\ UNCHANGED <<dateVars, percentVars,
                   now, tz, heap, chain, expiryGroups, puts, cherries, width, spreads,
                   allResults, optimal, date, days, side, multiplier, lastTrade,
                   threshold, apyVars, loopVars>>

NextFilter ==
    \/ ResolveThreshold
    \/ ResolveThresholdEarlier
    \/ FilterChain

SpecFilter == InitFilter /\ [][NextFilter]_vars

\* The strikes, premiums and day counts handed to calculateAPY
APYStrikes == {Num(95), Num(100), Zero}
APYPremiums == {Zero, Num(1), Rat(5, 2), Num(3)}
APYDays == {Num(-2), Num(-1), Zero, Num(1), Num(2), Num(30), Num(57), NaN}

\* A put row has been parsed; its days to expiration are given, or else still
\* to be counted from its expiration date
InitAPY ==
    /\ Idle
    /\ NoToken
    /\ script = "none" /\ stocks = <<>>
    /\ side = "put" /\ multiplier = Num(1) /\ lastTrade = CurrentPrice
    /\ now = DayNumber(2025, 2, 25) * HoursInADay + 10
    /\ tz = 0
    /\ chain = <<>>
    /\ expiryGroups = <<>>
    /\ date \in {Num(DayNumber(2025, 2, 2) * HoursInADay),
                 Num(DayNumber(2025, 2, 25) * HoursInADay),
                 Num(DayNumber(2025, 3, 21) * HoursInADay)}
    /\ apyInput \in [strikePrice : APYStrikes, optionPremium : APYPremiums,
                     daysToExpiration : APYDays]

\* calculateAPY(strikePrice, optionPremium, daysToExpiration)
CalculateAPY ==
    /\ pc = "start"
    /\ apy' = calculateAPY(apyInput.strikePrice, apyInput.optionPremium,
                           apyInput.daysToExpiration)
    /\ pc' = IF apy'.threw THEN "apyThrew" ELSE "apyReturned"
    /\ UNCHANGED <<dateVars, percentVars,
                   now, tz, heap, chain, expiryGroups, puts, cherries, width, spreads,
                   allResults, optimal, date, days, filterVars, apyInput, loopVars>>

\* calculateAPY(strikePrice, optionPremiumBid, daysUntil(expDate)): the put
\* evaluator of the APY version
CalculateAPYOfDays ==
    /\ pc = "daysComputed"
    /\ apy' = calculateAPY(apyInput.strikePrice, apyInput.optionPremium, days)
    /\ pc' = IF apy'.threw THEN "apyOfDaysThrew" ELSE "apyOfDaysReturned"
    /\ UNCHANGED <<dateVars, percentVars,
                   now, tz, heap, chain, expiryGroups, puts, cherries, width, spreads,
                   allResults, optimal, date, days, filterVars, apyInput, loopVars>>

NextAPY ==
    \/ CalculateAPY
    \/ ComputeDays
    \/ CalculateAPYOfDays

SpecAPY == InitAPY /\ [][NextAPY]_vars

\* The days of the month of the raw expiry tokens
TokenDays == {<<"1">>, <<"2">>, <<"2", "5">>}

\* Raw expiry tokens: "MMM D" for every month abbreviation, a token of an
\* unknown month, a token without a day, a token in lower case
ExpiryTokens ==
    {monthNames[m] \o <<" ">> \o d : m \in 1..12, d \in TokenDays}
        \cup {TokenUnknownMonth, <<"F", "e", "b">>, <<"f", "e", "b", " ", "2">>}

\* Instants the resolver runs at: new year's day at noon, the morning of
\* February 25, noon of June 15, the last hour of the year (UTC)
ResolverNows ==
    {12, DayNumber(2025, 2, 25) * HoursInADay + 10,
     DayNumber(2025, 6, 15) * HoursInADay + 12,
     DayNumber(2025, 12, 31) * HoursInADay + 23}

\* UTC offsets of the zone of the process: New York in winter, UTC, Helsinki
ResolverZones == {-5, 0, 2}

\* Lists of expiration labels, as getUniqueExpiryGroups returns them
ResolverLabelLists == ExpiryGroupLists \cup {<<>>, <<LabelMar21>>}

\* A chain row's expiry token is about to be resolved
InitDates ==
    /\ Idle
    /\ apyInput = [strikePrice |-> Zero, optionPremium |-> Zero, daysToExpiration |-> Zero]
    /\ script = "none" /\ stocks = <<>>
    /\ side = "put" /\ multiplier = Num(1) /\ lastTrade = CurrentPrice
    /\ chain = <<>>
    /\ expiryGroups = <<>>
    /\ date = Zero
    /\ percentInput = [targetPrice |-> Zero, currentPrice |-> Zero]
    /\ now \in ResolverNows
    /\ tz \in ResolverZones
    /\ expiryToken \in ExpiryTokens
    /\ labelList \in ResolverLabelLists

\* convertStringToDate(stringDate)
ConvertStringToDate ==
    /\ pc = "start"
    /\ converted' = convertStringToDate(expiryToken, now, tz)
    /\ pc' = "converted"
    /\ UNCHANGED <<now, tz, heap, chain, expiryGroups, puts, cherries, width, spreads,
                   allResults, optimal, date, days, filterVars, apyVars, loopVars,
                   expiryToken, labelList, resolved, percentVars>>

\* findExpiryGroupStartingWith(dateStr, expiryGroups)
FindExpiryGroup ==
    /\ pc = "start"
    /\ resolved' = findExpiryGroupStartingWith(expiryToken, labelList)
    /\ pc' = "groupFound"
    /\ UNCHANGED <<now, tz, heap, chain, expiryGroups, puts, cherries, width, spreads,
                   allResults, optimal, date, days, filterVars, apyVars, loopVars,
                   expiryToken, labelList, converted, percentVars>>

NextDates == ConvertStringToDate \/ FindExpiryGroup

SpecDates == InitDates /\ [][NextDates]_vars

\* Strikes as safeParseFloat gives them, and positive current prices
PercentStrikes ==
    {Zero, Rat(1, 100), Num(50), Num(95), Num(100), Rat(10999, 100), Num(110),
     Rat(11001, 100), Num(120), Num(1250), NaN}
PercentPrices == {Rat(1, 100), Num(1), Num(95), Num(100), Num(110), Num(1250)}

\* A row's strike has been parsed and the current price is known
InitPercent ==
    /\ Idle
    /\ apyInput = [strikePrice |-> Zero, optionPremium |-> Zero, daysToExpiration |-> Zero]
    /\ script = "none" /\ stocks = <<>>
    /\ side = "put" /\ multiplier = Num(1) /\ lastTrade = CurrentPrice
    /\ chain = <<>>
    /\ expiryGroups = <<>>
    /\ date = Zero
    /\ now = 12
    /\ tz = 0
    /\ expiryToken = <<>>
    /\ labelList = <<>>
    /\ percentInput \in [targetPrice : PercentStrikes, currentPrice : PercentPrices]

\* calculatePercentageChange(strikePrice, currentPrice)
CalculatePercentageChange ==
    /\ pc = "start"
    /\ percent' = calculatePercentageChange(percentInput.targetPrice,
                                            percentInput.currentPrice)
    /\ pc' = "percentComputed"
    /\ UNCHANGED <<now, tz, heap, chain, expiryGroups, puts, cherries, width, spreads,
                   allResults, optimal, date, days, filterVars, apyVars, loopVars,
                   dateVars, percentInput>>

NextPercent == CalculatePercentageChange

SpecPercent == InitPercent /\ [][NextPercent]_vars

\* put.ts, creditspread.ts: the input file has been parsed
InitLoop ==
    /\ Idle
    /\ NoToken
    /\ apyInput = [strikePrice |-> Zero, optionPremium |-> Zero, daysToExpiration |-> Zero]
    /\ side = "put" /\ multiplier = Num(1) /\ lastTrade = CurrentPrice
    /\ now = 12
    /\ tz = 0
    /\ chain = <<>>
    /\ expiryGroups = <<>>
    /\ date = Zero
    /\ script \in {"put", "creditspread"}
    /\ stocks \in UNION {[1..n -> StockRows] : n \in 1..MaxTickers}

\* put.ts: one pass of the loop over stocksInputData.  An error
\* evaluatePutOptionsPerformance throws is caught nowhere: the script ends.
ProcessPutTicker ==
    /\ script = "put"
    /\ pc \in {"start", "looping"}
    /\ cursor <= Len(stocks)
    /\ \E response \in PutResponses :
           /\ quotes' = Append(quotes, getOptionQuote(response))
           /\ puts' = PutPerformance(stocks[cursor], getOptionQuote(response), now, tz, heap)
    /\ IF puts'.error # "none"
       THEN /\ pc' = "crashed"
            /\ UNCHANGED <<dateVars, percentVars,
                   cursor, candidates, collected, heap>>
       ELSE /\ pc' = "looping"
            /\ candidates' = PutTickerList(puts'.value)
            /\ collected' = PushByTicker(collected, stocks[cursor].symbol, candidates')
            /\ cursor' = cursor + 1
            /\ heap' = heap + Len(quotes'[Len(quotes')].rows)
    /\ UNCHANGED <<dateVars, percentVars,
                   now, tz, chain, expiryGroups, cherries, width, spreads, allResults,
                   optimal, date, days, filterVars, apyVars, script, stocks, printed>>

\* put.ts: the loop has ended, the results are printed by ticker
PrintPuts ==
    /\ script = "put"
    /\ pc = "looping"
    /\ cursor > Len(stocks)
    /\ printed' = PrintedByTicker(collected)
    /\ pc' = "done"
    /\ UNCHANGED <<dateVars, percentVars,
                   now, tz, heap, chain, expiryGroups, puts, cherries, width, spreads,
                   allResults, optimal, date, days, filterVars, apyVars, script, stocks,
                   cursor, quotes, candidates, collected>>

\* creditspread.ts: one pass of the loop over stocksInputData
ProcessSpreadTicker ==
    /\ script = "creditspread"
    /\ pc \in {"start", "looping"}
    /\ cursor <= Len(stocks)
    /\ \E response \in CallResponses :
           /\ quotes' = Append(quotes, getOptionQuote(response))
           /\ candidates' = OptimalSpreads(stocks[cursor], getOptionQuote(response),
                                           Num(MIN_ANNUALIZED_ROI), now, tz, heap)
    /\ collected' = collected \o candidates'
    /\ cursor' = cursor + 1
    /\ heap' = heap + Len(spreadWidths) * Len(quotes'[Len(quotes')].rows)
                                        * Len(quotes'[Len(quotes')].rows)
    /\ pc' = "looping"
    /\ UNCHANGED <<dateVars, percentVars,
                   now, tz, chain, expiryGroups, puts, cherries, width, spreads,
                   allResults, optimal, date, days, filterVars, apyVars, script, stocks,
                   printed>>

\* creditspread.ts: the loop has ended, the best result of each ticker and
\* strike is kept and the results are printed
PrintSpreads ==
    /\ script = "creditspread"
    /\ pc = "looping"
    /\ cursor > Len(stocks)
    /\ printed' = FilteredResults(collected)
    /\ pc' = "done"
    /\ UNCHANGED <<dateVars, percentVars,
                   now, tz, heap, chain, expiryGroups, puts, cherries, width, spreads,
                   allResults, optimal, date, days, filterVars, apyVars, script, stocks,
                   cursor, quotes, candidates, collected>>

NextLoop ==
    \/ ProcessPutTicker
    \/ PrintPuts
    \/ ProcessSpreadTicker
    \/ PrintSpreads

SpecLoop == InitLoop /\ [][NextLoop]_vars

----------------------------------------------------------------------------
(* Properties *)

Range(seq) == {seq[i] : i \in 1..Len(seq)}

\* The result the put evaluator computes for row i of the chain
PutResultOfRow(i) ==
    PutRowResult(chain[i], CurrentPrice, Ticker, expiryGroups, now, tz,
                 heap - Len(chain) + i)

\* C1: evaluatePutOptionsPerformance never emits a result whose annualizedROI
\* is below the 15% cutoff: every element of the output has annualizedROI >=
\* cutoff, and every input row whose annualized ROI is below the cutoff is
\* absent from the output.
C1_PutCutoff ==
    pc = "putsEvaluated" =>
        /\ \A r \in Range(puts.value) :
               Ge(r.annualizedROI, Num(MIN_ANN_ROI_PERCENTAGE))
        /\ \A i \in 1..Len(chain) :
               Lt(PutResultOfRow(i).annualizedROI, Num(MIN_ANN_ROI_PERCENTAGE))
                   => \A r \in Range(puts.value) : r.expDate.ref # PutResultOfRow(i).expDate.ref

\* A run of the put evaluator that emitted a row and dropped one below the cutoff
C1_Witness ==
    /\ pc = "putsEvaluated"
    /\ puts.value # <<>>
    /\ \E i \in 1..Len(chain) :
           Lt(PutResultOfRow(i).annualizedROI, Num(MIN_ANN_ROI_PERCENTAGE))

\* long strike - short strike - net credit of an emitted spread
MaxRiskOf(r) == Sub(Sub(r.longStrike, r.strikePrice), r.bid)

\* C2: evaluateCallCreditSpreadPerformance and findOptimalCallCreditSpreads
\* never emit a result with non-positive net credit or non-positive max risk:
\* every emitted spread has net credit > 0 and max risk > 0.
C2_PositiveCreditAndRisk ==
    \A r \in Range(spreads) \cup Range(optimal) :
        /\ Gt(r.bid, Zero)
        /\ Gt(MaxRiskOf(r), Zero)

\* A spread was emitted whose net credit is not a number
C2_Witness ==
    /\ pc = "spreadsEvaluated"
    /\ \E r \in Range(spreads) : IsNaN(r.bid)

\* C3: the list findOptimalCallCreditSpreads returns holds at most one result
\* per (ticker, strikePrice, expDateStr).
C3_OneResultPerKey ==
    pc = "spreadsOptimized" =>
        \A a, b \in 1..Len(optimal) :
            (/\ optimal[a].ticker = optimal[b].ticker
             /\ optimal[a].strikePrice = optimal[b].strikePrice
             /\ optimal[a].expDateStr = optimal[b].expDateStr) => a = b

\* The same short strike qualified under several widths, and the list was
\* returned
C3_Witness ==
    /\ pc = "spreadsOptimized"
    /\ optimal # <<>>
    /\ \E a, b \in 1..Len(allResults) :
           /\ a < b
           /\ allResults[a].spreadWidthPercent # allResults[b].spreadWidthPercent
           /\ allResults[a].strikePrice = allResults[b].strikePrice
           /\ allResults[a].expDateStr = allResults[b].expDateStr

SameKey(a, b) ==
    /\ a.ticker = b.ticker
    /\ a.strikePrice = b.strikePrice
    /\ a.expDateStr = b.expDateStr

Unresolvable(row) ==
    \/ IsUndefined(row.expiryDate)
    \/ IsUndefined(findExpiryGroupStartingWith(row.expiryDate, expiryGroups))

\* The results without the identities of their Dates
Anonymous(results) ==
    [i \in 1..Len(results) |-> [results[i] EXCEPT !.expDate = results[i].expDate.time]]

\* C5: a put row whose expiry token cannot be resolved is excluded from the
\* results: evaluatePutOptionsPerformance does not fail, and returns what it
\* returns for the other rows alone.
C5_UnresolvableRowExcluded ==
    pc \in {"putsEvaluated", "putsFailed"} =>
        /\ puts.error = "none"
        /\ Anonymous(puts.value)
               = Anonymous(evaluatePutOptionsPerformance(
                               SelectSeq(chain, LAMBDA row : ~Unresolvable(row)),
                               CurrentPrice, Ticker, expiryGroups, now, tz, 0).value)

\* The put evaluator failed on a chain that has a resolvable row too
C5_Witness ==
    /\ pc = "putsFailed"
    /\ \E i, j \in 1..Len(chain) : Unresolvable(chain[i]) /\ ~Unresolvable(chain[j])

\* C6: evaluateCallCreditSpreadPerformance never emits a spread with an
\* invalid expDate or a non-numeric daysToExpiration or annualizedROI for rows
\* whose expiry token resolves to no valid date.
C6_NoSpreadWithoutDate ==
    \A r \in Range(spreads) :
        /\ IsValidDate(r.expDate)
        /\ ~IsNaN(r.daysToExpiration)
        /\ IsNaN(convertStringToDate(r.expDateStr, now, tz)) => ~IsNaN(r.annualizedROI)

\* A spread was emitted for an expiry token that resolves to no date
C6_Witness ==
    /\ pc = "spreadsEvaluated"
    /\ \E r \in Range(spreads) :
           /\ IsNaN(convertStringToDate(r.expDateStr, now, tz))
           /\ ~IsValidDate(r.expDate)
           /\ IsNaN(r.daysToExpiration)
           /\ IsNaN(r.annualizedROI)

\* C7: every result the put evaluator, the single-width spread evaluator or
\* the spread optimizer emits has an integer daysToExpiration >= 1.
C7_DaysAtLeastOne ==
    \A r \in Range(puts.value) \cup Range(spreads) \cup Range(optimal) :
        /\ IsInteger(r.daysToExpiration)
        /\ Ge(r.daysToExpiration, Num(1))

\* The optimizer returned a spread whose daysToExpiration is not a number
C7_Witness ==
    /\ pc = "spreadsOptimized"
    /\ \E r \in Range(optimal) : IsNaN(r.daysToExpiration)

\* The hours the New York wall clock shows between instants a and b
WallHours(a, b) == (b + NewYorkOffset(b)) - (a + NewYorkOffset(a))

\* C8: daysUntil returns exactly 1 for a date that is not after now, and for
\* a later date the least whole number of days, at least 1, that covers the
\* time from now to the date (on the New York wall clock).
C8_DaysUntil ==
    pc = "daysComputed" =>
        /\ IsInteger(days)
        /\ date.n <= now => days = Num(1)
        /\ date.n > now =>
               /\ days.n >= 1
               /\ WallHours(now, date.n) <= days.n * HoursInADay
               /\ days.n > 1 => WallHours(now, date.n) > (days.n - 1) * HoursInADay

\* daysUntil has run for a date that is not after now
C8_Witness ==
    /\ pc = "daysComputed"
    /\ date.n < now
    /\ days = Num(1)

\* The candidates sorted by expDateStr, then strike: position k starts a group
GroupStart(sorted, k) ==
    k = 1 \/ sorted[k - 1].expDateStr # sorted[k].expDateStr

\* C9: grouped filterCherries never flags the first element of a group of
\* equal expDateStr (after the sort by expDateStr, then strike), and every
\* element it flags has a strictly smaller |percentageFromStrike| and a
\* strictly greater bid than its predecessor in the group; the last element
\* of the previous group is never what it is compared to.
C9_GroupedCherries ==
    pc = "cherriesFiltered" =>
        LET sorted == sortedOptions(puts.value)
        IN  /\ Len(sorted) = Len(puts.value)
            /\ Range(sorted) = Range(puts.value)
            /\ \A k \in 2..Len(sorted) :
                   \/ localeCompare(sorted[k - 1].expDateStr, sorted[k].expDateStr) < 0
                   \/ /\ sorted[k - 1].expDateStr = sorted[k].expDateStr
                      /\ Le(sorted[k - 1].strikePrice, sorted[k].strikePrice)
            /\ \A k \in 1..Len(sorted) :
                   sorted[k] \in Range(cherries) =>
                       /\ ~GroupStart(sorted, k)
                       /\ Lt(Abs(sorted[k].percentageFromStrike),
                             Abs(sorted[k - 1].percentageFromStrike))
                       /\ Gt(sorted[k].bid, sorted[k - 1].bid)

\* A cherry was flagged, and the first element of a group that dominates the
\* last element of the group before it was not
C9_Witness ==
    /\ pc = "cherriesFiltered"
    /\ cherries # <<>>
    /\ LET sorted == sortedOptions(puts.value)
       IN  \E k \in 2..Len(sorted) :
               /\ GroupStart(sorted, k)
               /\ Lt(Abs(sorted[k].percentageFromStrike),
                     Abs(sorted[k - 1].percentageFromStrike))
               /\ Gt(sorted[k].bid, sorted[k - 1].bid)
               /\ sorted[k] \notin Range(cherries)

\* C10: sequential filterCherries, on the list the put evaluator returns,
\* flags a row if and only if the row is not the first, has the same resolved
\* expiry as the row before it, a smaller |percentageFromStrike| and a
\* strictly higher bid than that row.
C10_SequentialCherries ==
    pc = "sequentialFiltered" =>
        \A idx \in 1..Len(puts.value) :
            puts.value[idx] \in Range(cherries) <=>
                /\ idx > 1
                /\ puts.value[idx].expDate.time = puts.value[idx - 1].expDate.time
                /\ Lt(Abs(puts.value[idx].percentageFromStrike),
                      Abs(puts.value[idx - 1].percentageFromStrike))
                /\ Gt(puts.value[idx].bid, puts.value[idx - 1].bid)

\* Two consecutive rows of the same expiry, the second dominating the first,
\* and no cherry
C10_Witness ==
    /\ pc = "sequentialFiltered"
    /\ cherries = <<>>
    /\ \E idx \in 2..Len(puts.value) :
           /\ puts.value[idx].expDate.time = puts.value[idx - 1].expDate.time
           /\ Lt(Abs(puts.value[idx].percentageFromStrike),
                 Abs(puts.value[idx - 1].percentageFromStrike))
           /\ Gt(puts.value[idx].bid, puts.value[idx - 1].bid)

\* The strike the filter compares with the threshold
ParsedStrike(row) == safeParseFloat(row.strike)

\* The bid of the side the filter was asked for
SideBid(row) == IF side = "put" THEN row.p_Bid ELSE row.c_Bid

\* The indices of the chain whose row has a strike that is strictly on the
\* side's side of the threshold and a bid that is not the placeholder
Qualifying ==
    {i \in 1..Len(chain) :
        /\ ~Empty(chain[i].strike)
        /\ IF side = "put" THEN Lt(ParsedStrike(chain[i]), threshold)
                           ELSE Gt(ParsedStrike(chain[i]), threshold)
        /\ SideBid(chain[i]) # StrPlaceholder}

StrikeUnparseable(row) ==
    \/ Empty(row.strike)
    \/ row.strike = StrPlaceholder
    \/ IsNaN(ParseFloat(RemoveCommas(row.strike)))

StrikeWithCommas == <<"1", ",", "2", "5", "0", ".", "0", "0">>

\* C12: filterOptionsByStrikePrice returns no row whose strike is missing or
\* unparseable (absent, empty, non-numeric or the placeholder), on either side
\* and for every threshold, and reads "1,250.00" as 1250.
C12_UnparseableStrikeExcluded ==
    pc = "chainFiltered" =>
        /\ \A k \in 1..Len(filtered) : ~StrikeUnparseable(filtered[k])
        /\ \A i \in 1..Len(chain) :
               chain[i].strike = StrikeWithCommas =>
                   ParsedStrike(chain[i]) = Num(1250)

C12_Witness ==
    /\ pc = "chainFiltered"
    /\ \E k \in 1..Len(filtered) : filtered[k].strike = StrPlaceholder
    /\ \E k \in 1..Len(filtered) : filtered[k].strike = <<"9", "5">>

\* C13: filterOptionsByStrikePrice never returns a put row without a p_Bid
\* value or a call row without a c_Bid value: rows whose bid is absent, empty
\* or the placeholder are excluded.
C13_MissingBidExcluded ==
    pc = "chainFiltered" =>
        \A k \in 1..Len(filtered) :
            /\ ~Empty(SideBid(filtered[k]))
            /\ SideBid(filtered[k]) # StrPlaceholder

C13_Witness ==
    /\ pc = "chainFiltered"
    /\ \E k \in 1..Len(filtered) : Empty(SideBid(filtered[k]))

\* C14: calculateMaxStrikePrice of the latest utils.ts returns multiplier x
\* current price for a multiplier below 1 and for a multiplier of 1 or more
\* alike; the earlier versions return a multiplier of 1 or more as it is.
C14_ThresholdIsProduct ==
    /\ pc = "thresholdResolved" => threshold = Mul(multiplier, lastTrade)
    /\ pc = "thresholdResolvedEarlier" =>
           threshold = IF Ge(multiplier, Num(1)) THEN multiplier
                       ELSE Mul(multiplier, lastTrade)

\* C14 as stated: every version of calculateMaxStrikePrice returns
\* multiplier x current price, whatever the multiplier.
C14_EveryVersionIsProduct ==
    pc \in {"thresholdResolved", "thresholdResolvedEarlier"} =>
        threshold = Mul(multiplier, lastTrade)

C14_Witness ==
    /\ pc = "thresholdResolved"
    /\ Ge(multiplier, Num(1))
    /\ threshold # multiplier
    /\ threshold = Rat(110, 1)

\* The strikes the chain lists for an expiration key
ListedStrikes(expDateStr) ==
    {safeParseFloat(OrZeroStr(chain[i].strike)) :
        i \in {k \in 1..Len(chain) : ExpiryKey(chain[k]) = expDateStr}}

\* short strike x (1 + width)
TargetOf(r) == Mul(r.strikePrice, Add(Num(1), r.spreadWidthPercent))

QuotedOrFallback(longOption) ==
    IF Gt(safeParseFloat(OrZeroStr(longOption.c_Ask)), Zero)
    THEN safeParseFloat(OrZeroStr(longOption.c_Ask))
    ELSE Mul(safeParseFloat(OrZeroStr(longOption.c_Bid)), Rat(11, 10))

\* The spread of short option i and long option j of an expiration group,
\* priced as the spec prices the long leg; <<>> when it is rejected
SpreadAsSpecified(sorted, i, j) ==
    SpreadOfLegs(safeParseFloat(OrZeroStr(sorted[i].strike)),
                 safeParseFloat(OrZeroStr(sorted[i].c_Bid)),
                 safeParseFloat(OrZeroStr(sorted[j].strike)),
                 QuotedOrFallback(sorted[j]),
                 ExpiryKey(sorted[i]),
                 DateObj(0, convertStringToDate(ExpiryKey(sorted[i]), now, tz)),
                 daysUntil(convertStringToDate(ExpiryKey(sorted[i]), now, tz), now, tz),
                 CurrentPrice, Ticker, spreadWidths[width], Num(MIN_ANNUALIZED_ROI))

\* The short options of an expiration group (sorted by strike) with a bid and
\* a long option, as pairs <<i, j>>
LegPairs(sorted) ==
    {<<i, LongIndex(sorted, i, Mul(safeParseFloat(OrZeroStr(sorted[i].strike)),
                                   Add(Num(1), spreadWidths[width])))>> :
        i \in {k \in 1..(Len(sorted) - 1) :
                  /\ Gt(safeParseFloat(OrZeroStr(sorted[k].c_Bid)), Zero)
                  /\ LongIndex(sorted, k,
                               Mul(safeParseFloat(OrZeroStr(sorted[k].strike)),
                                   Add(Num(1), spreadWidths[width]))) # 0}}

\* C16: the net credit of a spread is the short bid less the long row's ask
\* when that ask is present and positive, and less 1.1 x the long row's bid in
\* every other case (ask absent, placeholder, zero or negative): the single-
\* width routine emits, for every pair of legs, the spread priced so.
C16_LongPriceAskOrFallback ==
    pc = "spreadsEvaluated" =>
        \A g \in 1..Len(ExpiryKeys(chain)) :
            \A pair \in LegPairs(Sort(OptionsOfExpiry(chain, ExpiryKeys(chain)[g]), "strike")) :
                \A expected \in Range(SpreadAsSpecified(
                                  Sort(OptionsOfExpiry(chain, ExpiryKeys(chain)[g]), "strike"),
                                  pair[1], pair[2])) :
                    \E r \in Range(spreads) :
                        /\ r.strikePrice = expected.strikePrice
                        /\ r.expDateStr = expected.expDateStr
                        /\ r.longStrike = expected.longStrike
                        /\ r.bid = expected.bid

\* A long leg with a negative ask and a positive bid: the spec prices the
\* spread at 1.1 x the bid and accepts it, the routine emits nothing for its
\* short strike
C16_Witness ==
    /\ pc = "spreadsEvaluated"
    /\ \E g \in 1..Len(ExpiryKeys(chain)) :
           \E pair \in LegPairs(Sort(OptionsOfExpiry(chain, ExpiryKeys(chain)[g]), "strike")) :
               /\ Lt(safeParseFloat(OrZeroStr(
                         Sort(OptionsOfExpiry(chain, ExpiryKeys(chain)[g]), "strike")[pair[2]].c_Ask)),
                     Zero)
               /\ SpreadAsSpecified(
                      Sort(OptionsOfExpiry(chain, ExpiryKeys(chain)[g]), "strike"),
                      pair[1], pair[2]) # <<>>
               /\ \A r \in Range(spreads) :
                      r.strikePrice # safeParseFloat(OrZeroStr(
                          Sort(OptionsOfExpiry(chain, ExpiryKeys(chain)[g]), "strike")[pair[1]].strike))

\* C17: every spread the single-width routine or the optimizer emits has an
\* annualizedROI >= the minimum threshold.
C17_AnnualizedAtLeastMinimum ==
    \A r \in Range(spreads) \cup Range(optimal) :
        Ge(r.annualizedROI, Num(MIN_ANNUALIZED_ROI))

\* The optimizer returned a spread whose annualizedROI is not a number next
\* to one whose annualizedROI is at least the threshold
C17_Witness ==
    /\ pc = "spreadsOptimized"
    /\ \E r \in Range(optimal) : IsNaN(r.annualizedROI)
    /\ \E r \in Range(optimal) : Ge(r.annualizedROI, Num(MIN_ANNUALIZED_ROI))

\* C20: calculateAPY fails whenever days <= 0 and returns
\* (premium / strike / days) x 365 x 100 whenever days > 0; the day count of
\* daysUntil is at least 1, so calculateAPY of it does not fail.
C20_APYFailsOnNonPositiveDays ==
    /\ pc \in {"apyThrew", "apyReturned"} =>
           /\ Le(apyInput.daysToExpiration, Zero) => apy.threw
           /\ Gt(apyInput.daysToExpiration, Zero) =>
                  /\ ~apy.threw
                  /\ apy.value = Mul(Mul(Div(Div(apyInput.optionPremium,
                                                 apyInput.strikePrice),
                                             apyInput.daysToExpiration),
                                         Num(365)),
                                     Num(100))
    /\ pc \in {"apyOfDaysThrew", "apyOfDaysReturned"} =>
           /\ ~apy.threw
           /\ Le(Sub(date, Num(now)), Zero) =>
                  apy.value = Mul(Mul(Div(apyInput.optionPremium, apyInput.strikePrice),
                                      Num(365)),
                                  Num(100))

\* calculateAPY failed for zero days with a premium and a strike
C20_Witness ==
    /\ pc = "apyThrew"
    /\ apyInput.daysToExpiration = Zero
    /\ Gt(apyInput.optionPremium, Zero)
    /\ Gt(apyInput.strikePrice, Zero)

\* The tickers whose quote has rows
Fetched == {i \in 1..Len(quotes) : quotes[i].rows # <<>>}

\* resultsByTicker of put.ts once the loop has gone over the given tickers
\* and quotes from the k-th on
RECURSIVE PutsOfTickers(_, _, _, _)
PutsOfTickers(resultsByTicker, stockRows, quoteSeq, k) ==
    IF k > Len(stockRows) THEN resultsByTicker
    ELSE PutsOfTickers(
             PushByTicker(resultsByTicker, stockRows[k].symbol,
                          PutTickerList(PutPerformance(stockRows[k], quoteSeq[k],
                                                       now, tz, 0).value)),
             stockRows, quoteSeq, k + 1)

\* resultArr of creditspread.ts once the loop has gone over the given tickers
\* and quotes from the k-th on
RECURSIVE SpreadsOfTickers(_, _, _)
SpreadsOfTickers(stockRows, quoteSeq, k) ==
    IF k > Len(stockRows) THEN <<>>
    ELSE OptimalSpreads(stockRows[k], quoteSeq[k], Num(MIN_ANNUALIZED_ROI), now, tz, 0)
             \o SpreadsOfTickers(stockRows, quoteSeq, k + 1)

\* What the script prints for the tickers whose fetch succeeded alone
PrintedOfFetched ==
    IF script = "put"
    THEN PrintedByTicker(PutsOfTickers(<<>>, PickRows(stocks, Fetched, 1),
                                       PickRows(quotes, Fetched, 1), 1))
    ELSE FilteredResults(SpreadsOfTickers(PickRows(stocks, Fetched, 1),
                                          PickRows(quotes, Fetched, 1), 1))

\* The printed results without the identities of their Dates
AnonymousPrinted(list) ==
    IF script = "put"
    THEN [e \in 1..Len(list) |->
             [symbol |-> list[e].symbol, results |-> Anonymous(list[e].results)]]
    ELSE Anonymous(list)

\* C18: a ticker whose quote has no rows (the fetch failed or gave nothing)
\* contributes no candidates and the loop goes on to the next ticker; for
\* every sequence of tickers the scripts never crash, and what they print is
\* what they print for the tickers whose fetch succeeded alone.
C18_FailedFetchContributesNothing ==
    /\ pc # "crashed"
    /\ pc = "looping" /\ quotes[Len(quotes)].rows = <<>> =>
           /\ candidates = <<>>
           /\ cursor = Len(quotes) + 1
    /\ pc = "done" =>
           AnonymousPrinted(printed) = AnonymousPrinted(PrintedOfFetched)

\* The put script crashed on a ticker after the fetch of an earlier ticker
\* had failed
C18_Witness ==
    /\ pc = "crashed"
    /\ script = "put"
    /\ Len(quotes) = 2
    /\ quotes[1].rows = <<>>
    /\ quotes[2].rows # <<>>

\* The place of a result in a list that holds it
IndexIn(list, result) == CHOOSE i \in 1..Len(list) : list[i] = result

\* C19: the list findOptimalCallCreditSpreads returns is sorted by
\* annualizedROI in non-increasing order, and results of equal annualizedROI
\* keep the order they had before the sort.
C19_SortedStable ==
    pc = "spreadsOptimized" =>
        \A a, b \in 1..Len(optimal) :
            a < b =>
                /\ Ge(optimal[a].annualizedROI, optimal[b].annualizedROI)
                /\ optimal[a].annualizedROI = optimal[b].annualizedROI =>
                       IndexIn(UniqueResults(allResults), optimal[a])
                           < IndexIn(UniqueResults(allResults), optimal[b])

\* The optimizer returned a list in which a spread whose annualizedROI is not
\* a number stands before one whose annualizedROI is a number
C19_Witness ==
    /\ pc = "spreadsOptimized"
    /\ \E a, b \in 1..Len(optimal) :
           /\ a < b
           /\ IsNaN(optimal[a].annualizedROI)
           /\ ~IsNaN(optimal[b].annualizedROI)

\* The month (1..12) a raw token "MMM D" names, 0 when it names none
TokenMonth(stringDate) == IndexOfMonth(Head(Split(stringDate, " "))) + 1

\* The day of the month a raw token "MMM D" names
TokenDay(stringDate) == ParseInt(Elem(Split(stringDate, " "), 2))

\* A token "MMM D" of a month abbreviation and a day
WellFormedToken(stringDate) ==
    /\ TokenMonth(stringDate) >= 1
    /\ ~IsNaN(TokenDay(stringDate))

\* C21: the Date convertStringToDate returns for a token "MMM D" is in the
\* current year when the token's month is the current month or a later one,
\* and in the next year otherwise.
C21_YearInferred ==
    pc = "converted" /\ WellFormedToken(expiryToken) =>
        /\ ~IsNaN(converted)
        /\ YearOfDay(DayAt(converted.n, 0))
               = IF TokenMonth(expiryToken) >= getMonth(now, tz) + 1
                 THEN getFullYear(now, tz)
                 ELSE getFullYear(now, tz) + 1

\* In a zone east of UTC, in January, the token "Jan 1" was converted to
\* December 31 of the year before
C21_Witness ==
    /\ pc = "converted"
    /\ tz > 0
    /\ expiryToken = monthNames[1] \o <<" ", "1">>
    /\ getMonth(now, tz) = 0
    /\ converted = Num(DayNumber(getFullYear(now, tz), 1, 1) * HoursInADay - HoursInADay)

\* The places in labelList of the labels that start with "{FullMonth} {Day}"
\* of the token
LabelsOfToken ==
    {k \in 1..Len(labelList) :
        /\ TokenMonth(expiryToken) >= 1
        /\ ~IsUndefined(Elem(Split(expiryToken, " "), 2))
        /\ StartsWith(labelList[k],
                      fullMonthNames[TokenMonth(expiryToken)] \o <<" ">>
                          \o Elem(Split(expiryToken, " "), 2))}

\* C22: findExpiryGroupStartingWith returns the first label of the list that
\* starts with the token's full month name, a space and its day, and undefined
\* when the month has no mapping or no label starts so.
C22_FirstLabelWithPrefix ==
    pc = "groupFound" =>
        IF LabelsOfToken = {} THEN IsUndefined(resolved)
        ELSE \E k \in LabelsOfToken :
                 /\ resolved = labelList[k]
                 /\ \A h \in LabelsOfToken : k <= h

\* Two labels of the list start with "February 2"; the first one was returned
C22_Witness ==
    /\ pc = "groupFound"
    /\ expiryToken = TokenFeb2
    /\ labelList = <<LabelFeb2, LabelFeb25, LabelMar21>>
    /\ resolved = LabelFeb2

\* The month (1..12) and the day of the month an expiration label denotes
LabelMonth(expiry) == IndexOfMonth(SubSeq(Head(Split(expiry, " ")), 1, 3)) + 1
LabelDay(expiry) == ParseInt(Elem(Split(expiry, " "), 2))

\* C27: a label findExpiryGroupStartingWith returns for a token "MMM D"
\* denotes the month and the day of the month of the token.
C27_LabelOfSameDay ==
    pc = "groupFound" /\ ~IsUndefined(resolved) =>
        /\ LabelMonth(resolved) = TokenMonth(expiryToken)
        /\ LabelDay(resolved) = TokenDay(expiryToken)

\* The token "Feb 2" was resolved to the label of February 25
C27_Witness ==
    /\ pc = "groupFound"
    /\ expiryToken = TokenFeb2
    /\ resolved = LabelFeb25

\* C23: for a positive current price, calculatePercentageChange(strike,
\* currentPrice) is zero if and only if the strike equals the current price,
\* and negative if and only if the strike is below the current price.
C23_SignOfPercentage ==
    pc = "percentComputed" /\ Gt(percentInput.currentPrice, Zero) =>
        /\ percent = Zero <=> percentInput.targetPrice = percentInput.currentPrice
        /\ Lt(percent, Zero) <=> Lt(percentInput.targetPrice, percentInput.currentPrice)

\* The percentage of a strike one cent below the current price was computed
C23_Witness ==
    /\ pc = "percentComputed"
    /\ percentInput.currentPrice = Num(110)
    /\ percentInput.targetPrice = Rat(10999, 100)
    /\ Lt(percent, Zero)

\* The input file names every ticker once
TickersDistinct ==
    \A i, j \in 1..Len(stocks) : stocks[i].symbol = stocks[j].symbol => i = j

\* The results a printed list holds for a ticker, without the identities of
\* their Dates
ResultsOfTicker(list, symbol) ==
    IF script = "put"
    THEN UNION {Range(Anonymous(list[e].results)) :
                   e \in {h \in 1..Len(list) : list[h].symbol = symbol}}
    ELSE {r \in Range(Anonymous(list)) : r.ticker = symbol}

\* What the script reports for the i-th ticker processed alone
ResultsOfTickerAlone(i) ==
    IF script = "put"
    THEN Range(Anonymous(PutTickerList(
                   PutPerformance(stocks[i], quotes[i], now, tz, 0).value)))
    ELSE Range(Anonymous(FilteredResults(
                   OptimalSpreads(stocks[i], quotes[i], Num(MIN_ANNUALIZED_ROI),
                                  now, tz, 0))))

\* The orders the tickers of the input file can be processed in
Orders == {order \in [1..Len(stocks) -> 1..Len(stocks)] :
              \A i, j \in 1..Len(stocks) : order[i] = order[j] => i = j}

\* What the script prints when it goes over the tickers in the given order
PrintedInOrder(order) ==
    IF script = "put"
    THEN PrintedByTicker(PutsOfTickers(<<>>, [i \in 1..Len(stocks) |-> stocks[order[i]]],
                                       [i \in 1..Len(stocks) |-> quotes[order[i]]], 1))
    ELSE FilteredResults(SpreadsOfTickers([i \in 1..Len(stocks) |-> stocks[order[i]]],
                                          [i \in 1..Len(stocks) |-> quotes[order[i]]], 1))

SameTickerAndStrike(a, b) ==
    /\ a.ticker = b.ticker
    /\ a.strikePrice = b.strikePrice

\* C25: after the final filter of the credit-spread script the reported list
\* holds one result for every (ticker, strikePrice) of the accumulated list
\* and no more; the result is one of the key's results, it has the highest
\* ROI of them, and of the key's results of that same ROI it is the earliest.
C25_BestROIPerStrike ==
    pc = "done" /\ script = "creditspread" =>
        /\ \A a, b \in 1..Len(printed) :
               SameTickerAndStrike(printed[a], printed[b]) => a = b
        /\ \A v \in Range(collected) :
               \E kept \in Range(printed) : SameTickerAndStrike(kept, v)
        /\ \A kept \in Range(printed) :
               /\ kept \in Range(collected)
               /\ \A v \in Range(collected) :
                      SameTickerAndStrike(kept, v) =>
                          /\ Ge(kept.ROI, v.ROI)
                          /\ kept.ROI = v.ROI =>
                                 IndexIn(collected, kept) <= IndexIn(collected, v)

\* The script reported, for a ticker and strike, a result whose ROI is not a
\* number, and the accumulated list held a result of that ticker and strike
\* whose ROI is a number
C25_Witness ==
    /\ pc = "done"
    /\ script = "creditspread"
    /\ \E kept \in Range(printed) :
           /\ IsNaN(kept.ROI)
           /\ \E v \in Range(collected) :
                  SameTickerAndStrike(kept, v) /\ ~IsNaN(v.ROI)

\* The chain holds a row of the short strike and another row of the long
\* strike of the result with the same raw expiry token (or both without one)
LegsOfOneToken(r) ==
    \E i, j \in 1..Len(chain) :
        /\ i # j
        /\ safeParseFloat(OrZeroStr(chain[i].strike)) = r.strikePrice
        /\ safeParseFloat(OrZeroStr(chain[j].strike)) = r.longStrike
        /\ \/ chain[i].expiryDate = chain[j].expiryDate
           \/ Empty(chain[i].expiryDate) /\ Empty(chain[j].expiryDate)

\* C26: in every result of evaluateCallCreditSpreadPerformance the long leg
\* is a row of the short leg's raw expiry token, its strike is above the short
\* strike and at least the short strike times (1 + spreadWidthPercent), and
\* the net credit reported as bid is below the distance of the two strikes.
C26_LongLegFurtherOut ==
    pc = "spreadsEvaluated" =>
        \A r \in Range(spreads) :
            /\ LegsOfOneToken(r)
            /\ Gt(r.longStrike, r.strikePrice)
            /\ Ge(r.longStrike, Mul(r.strikePrice, Add(Num(1), spreadWidths[width])))
            /\ Lt(r.bid, Sub(r.longStrike, r.strikePrice))

\* The evaluator returned a spread whose net credit is not a number next to
\* a spread whose net credit is below the distance of its strikes
C26_Witness ==
    /\ pc = "spreadsEvaluated"
    /\ \E r \in Range(spreads) : IsNaN(r.bid)
    /\ \E r \in Range(spreads) : Lt(r.bid, Sub(r.longStrike, r.strikePrice))

\* The orders a list of n candidates can be handed over in
OrdersOf(n) == {order \in [1..n -> 1..n] : \A i, j \in 1..n : order[i] = order[j] => i = j}

\* C28: grouped filterCherries returns the same set of cherries for every
\* order of the same candidates, candidates that share expDateStr and
\* strikePrice included.
C28_OrderIndependent ==
    pc = "cherriesFiltered" =>
        \A order \in OrdersOf(Len(puts.value)) :
            Range(filterCherries([i \in 1..Len(puts.value) |-> puts.value[order[i]]]))
                = Range(cherries)

\* Two candidates of one expDateStr and strikePrice with different bids were
\* handed to filterCherries, and the one listed first was flagged
C28_Witness ==
    /\ pc = "cherriesFiltered"
    /\ \E a, b \in 1..Len(puts.value) :
           /\ a < b
           /\ puts.value[a].expDateStr = puts.value[b].expDateStr
           /\ puts.value[a].strikePrice = puts.value[b].strikePrice
           /\ Gt(puts.value[a].bid, puts.value[b].bid)
           /\ puts.value[a] \in Range(cherries)
           /\ puts.value[b] \notin Range(cherries)

\* C29: the spreadWidthPercent of every result findOptimalCallCreditSpreads
\* returns is a width of the ladder, the result attains the highest
\* annualizedROI of the variants of its key, and of the variants of that same
\* annualizedROI it is the one of the narrowest width.
C29_NarrowestBestWidth ==
    pc = "spreadsOptimized" =>
        \A kept \in Range(optimal) :
            /\ kept.spreadWidthPercent \in Range(spreadWidths)
            /\ \A v \in Range(allResults) :
                   SameKey(kept, v) =>
                       /\ ~IsNaN(v.annualizedROI) =>
                              Ge(kept.annualizedROI, v.annualizedROI)
                       /\ v.annualizedROI = kept.annualizedROI =>
                              Le(kept.spreadWidthPercent, v.spreadWidthPercent)

\* The optimizer returned, for a key, a variant whose annualizedROI is not a
\* number, and a variant of the key has an annualizedROI that is a number
C29_Witness ==
    /\ pc = "spreadsOptimized"
    /\ \E kept \in Range(optimal) :
           /\ IsNaN(kept.annualizedROI)
           /\ \E v \in Range(allResults) :
                  SameKey(kept, v) /\ ~IsNaN(v.annualizedROI)

\* C30: the put evaluator of the APY version never fails with the error of
\* calculateAPY for a chain whose expiry tokens all resolve, expirations of
\* the day of the run and of the days before it included: the days it hands
\* to calculateAPY are at least 1.
C30_APYErrorUnreachable ==
    /\ pc \in {"apyEvaluated", "apyFailed"}
           /\ (\A i \in 1..Len(chain) : ~Unresolvable(chain[i]))
           => puts.error = "none"
    /\ pc \in {"apyEvaluated", "apyFailed"} => puts.error # "Error"
    /\ pc = "apyEvaluated" =>
           \A r \in Range(puts.value) : Ge(r.daysToExpiration, Num(1))

\* The APY evaluator returned a result for a row whose expiration is not
\* after the instant of the run
C30_Witness ==
    /\ pc = "apyEvaluated"
    /\ \E r \in Range(puts.value) :
           /\ Le(r.expDate.time, Num(now))
           /\ r.daysToExpiration = Num(1)

====
